---- MODULE Spec2Model ----
(***************************************************************************)
(* Alphabot: the command/event dispatch core.                              *)
(*   - permission resolution   (System/Handlers/events.js, database.js)    *)
(*   - command dispatch        (handleCommand)                             *)
(*   - CommandService.execute  (core/services/CommandService.js)           *)
(*   - reply / reaction waiters (addReplyEvent, handleReply, ...)          *)
(*   - command registry        (CommandService.loadCommand, reload)        *)
(*   - delayed-loop commands   (spam, gonhay, chuilientuc)                 *)
(*   - start-up and timers     (booting and its recovery paths)            *)
(*   - launcher                (index.js bounded auto-restart)             *)
(*   - JSON backend            (updateJSON, initDatabase)                  *)
(*   - message / thread-log dispatch (handleMessage, handleEvent)          *)
(*   - waiter lifetimes        (the setTimeout of each registration)       *)
(*   - cooldown keys           (CommandService.execute next to reload)     *)
(*   - appstate schema check   (validateAppState, POST /api/update)        *)
(*   - waiter records          (what addReplyEvent may be handed)          *)
(*   - bot lock                (data/bot.lock, startBot, the web UI)       *)
(*   - plugin dependencies     (PluginService.enable)                      *)
(* Every subsystem has its own specification over the shared variables.    *)
(***************************************************************************)
EXTENDS Integers, Sequences, FiniteSets, TLC

VARIABLES
  config,        \* global.config: the ADMINS / MODERATORS / ABSOLUTES lists
  threads,       \* global.data.threads: threadID -> thread record
  users,         \* global.data.users: userID -> user record
  resolved,      \* the last getUserPermissions call: its inputs and its result
  spOut,         \* the last setpermission run: what it replied
  now,           \* Date.now(), in milliseconds
  cooldowns,     \* global.client.cooldowns: senderID -> commandName -> stamp
  inflight,      \* handleCommand invocations suspended at an await
  out,           \* the last handleCommand invocation that ran to its end
  lastRun,       \* history: when the handler last ran, per (sender, command)
  svcCooldowns,  \* CommandService.cooldowns: commandName -> userID -> expiry
  svcInflight,   \* CommandService.execute calls awaiting the command's handler
  svcOut,        \* the last CommandService.execute call and its outcome
  svcPassed,     \* history: the last call that passed the checks, per pair
  waiters,       \* the baseInput object of each sent message
  replies,       \* global.client.replies: the messageIDs it maps to baseInput
  reactions,     \* global.client.reactions: the same for reactions
  timers,        \* pending setTimeout callbacks of the waiters
  winflight,     \* the handleReply / handleReaction invocation at its await
  wOut,          \* the last handleReply / handleReaction invocation that ended
  calls,         \* history: callback invocations since the last registration
  leases,        \* history: the registration each waiter entry stems from
  svcCommands,   \* CommandService.commands / configs: name -> loaded config
  svcAliases,    \* CommandService.aliases: alias -> command name
  reloading,     \* the CommandService.reload call awaiting the module import
  regOut,        \* the last registry operation and what it returned
  registered,    \* history: the command names loadCommand has registered
  sessions,      \* global.Spam / global.gonhay / global.c1: the thread keys
  loops,         \* the running delayed-loop handlers, at their awaits
  armed,         \* timer name -> the instances of it that are pending
  boot,          \* the bot process: phase, logins in flight, recoveries due
  launcher,      \* index.js: restartCount, its timers, the child's state
  launchOut,     \* the last close of the child and what the launcher decided
  dataThreads,   \* global.data.threads as the JSON backend holds it
  disk,          \* the files of the JSON backend: path -> content
  dataUsers,     \* global.data.users as the JSON backend holds it
  dbOut,         \* the last initDatabase: what was written, what was read
  checkIn,       \* the arguments of a checkPermission call
  checkOut,      \* what the call returned
  evInflight,    \* the handleMessage invocation at its await
  evOut,         \* the last handleMessage / handleEvent invocation that ended
  appIn,         \* the appstate handed to the validator or posted to the web UI
  appFile,       \* the content of data/appstate.json
  appOut,        \* the last validateAppState call or POST /api/update, its result
  lockFile,      \* data/bot.lock: what writeLock wrote in it, None when absent
  bots,          \* the pids of the bot processes alive
  starters,      \* the processes that start the bot: where each is in its start
  spawned,       \* how many bot processes were spawned so far
  isTermux,      \* the environment: the web UI spawns index.js, not Gbot.js
  plugins,       \* PluginService.plugins: name -> dependencies, hooks
  enabled,       \* PluginService.enabled
  states,        \* PluginService.states
  stack,         \* the calls of enable that have not ended, the outermost first
  plugOut        \* the last call of enable by the application, how it ended

vars == <<config, threads, users, resolved, spOut, now, cooldowns, inflight,
          out, lastRun, svcCooldowns, svcInflight, svcOut, svcPassed,
          waiters, replies, reactions, timers, winflight, wOut, calls, leases,
          svcCommands, svcAliases, reloading, regOut, registered,
          sessions, loops, armed, boot, launcher, launchOut,
          dataThreads, dataUsers, disk, dbOut, checkIn, checkOut, evInflight, evOut,
          appIn, appFile, appOut,
          lockFile, bots, starters, spawned, isTermux,
          plugins, enabled, states, stack, plugOut>>

permVars == <<resolved, spOut>>
cmdVars == <<now, cooldowns, inflight, out, lastRun>>
svcVars == <<svcCooldowns, svcInflight, svcOut, svcPassed>>
waitVars == <<waiters, replies, reactions, timers, winflight, wOut, calls, leases>>
regVars == <<svcCommands, svcAliases, reloading, regOut, registered>>
loopVars == <<sessions, loops>>
bootVars == <<armed, boot>>
launchVars == <<launcher, launchOut>>
dbVars == <<dataThreads, dataUsers, disk, dbOut>>
checkVars == <<checkIn, checkOut>>
evVars == <<evInflight, evOut>>
appVars == <<appIn, appFile, appOut>>
lockVars == <<lockFile, bots, starters, spawned, isTermux>>
pluginVars == <<plugins, enabled, states, stack, plugOut>>

\* the variables of the dispatch core, and those of the services around it
coreVars == <<config, threads, users, permVars, cmdVars, svcVars, waitVars>>
sysVars ==
  <<regVars, loopVars, bootVars, launchVars, dbVars, checkVars, evVars, appVars, lockVars, pluginVars>>

\* what each of these services leaves alone
outsideReg ==
  <<coreVars, loopVars, bootVars, launchVars, dbVars, checkVars, evVars, appVars, lockVars, pluginVars>>
outsideLoop ==
  <<coreVars, regVars, bootVars, launchVars, dbVars, checkVars, evVars, appVars, lockVars, pluginVars>>
outsideBoot ==
  <<coreVars, regVars, loopVars, launchVars, dbVars, checkVars, evVars, appVars, lockVars, pluginVars>>
outsideLaunch ==
  <<coreVars, regVars, loopVars, bootVars, dbVars, checkVars, evVars, appVars, lockVars, pluginVars>>
outsideDb ==
  <<coreVars, regVars, loopVars, bootVars, launchVars, checkVars, evVars, appVars, lockVars, pluginVars>>
outsideCheck ==
  <<coreVars, regVars, loopVars, bootVars, launchVars, dbVars, evVars, appVars, lockVars, pluginVars>>
outsideEv ==
  <<coreVars, regVars, loopVars, bootVars, launchVars, dbVars, checkVars, appVars, lockVars, pluginVars>>
outsideApp ==
  <<coreVars, regVars, loopVars, bootVars, launchVars, dbVars, checkVars, evVars, lockVars, pluginVars>>
outsideLock ==
  <<coreVars, regVars, loopVars, bootVars, launchVars, dbVars, checkVars, evVars, appVars, pluginVars>>
outsidePlugin ==
  <<coreVars, regVars, loopVars, bootVars, launchVars, dbVars, checkVars, evVars, appVars, lockVars>>

----------------------------------------------------------------------------
(* Universe of identifiers *)

UserIDs == {"u1", "u2", "u3"}
GroupIDs == {"g1", "g2"}
ThreadIDs == GroupIDs \cup {"dm"}

None == [none |-> TRUE]

Includes(list, x) == \E i \in DOMAIN list : list[i] = x

----------------------------------------------------------------------------
(* Permission resolution *)

\* Threads.get / Users.get of the controllers: the cached record, or null.
ThreadsGet(threadID) ==
  IF threadID \in DOMAIN threads THEN threads[threadID] ELSE None

UsersGet(userID) ==
  IF userID \in DOMAIN users THEN users[userID] ELSE None

\* database.js getUserPermissionsFromDB
getUserPermissionsFromDB(threadID, userID) ==
  IF threadID \in DOMAIN threads
    THEN IF userID \in DOMAIN threads[threadID].permissions
           THEN threads[threadID].permissions[userID]
           ELSE <<"user">>
    ELSE <<"user">>

\* the global step of getUserPermissions (lines 178-184)
isGlobalAdmin(userID) ==
  \/ userID \in config.ADMINS
  \/ userID \in config.MODERATORS
  \/ userID \in config.ABSOLUTES

\* the stored-override test of getUserPermissions (line 197)
overrideApplies(permissions) ==
  Len(permissions) > 0 /\ permissions[1] # "user"

\* events.js getUserPermissions
getUserPermissions(userID, threadID) ==
  IF isGlobalAdmin(userID) THEN <<"admin", "supper_admin">>
  ELSE LET threadData == ThreadsGet(threadID)
           userData == UsersGet(userID)
           fromUser == IF userData # None /\ userData.hasPermissions
                         THEN userData.permissions
                         ELSE <<"user">>
       IN IF threadData # None
            THEN IF userID \in threadData.adminIDs
                   THEN <<"thread_admin", "admin">>
                   ELSE LET permissions ==
                              getUserPermissionsFromDB(threadID, userID)
                        IN IF overrideApplies(permissions)
                             THEN permissions
                             ELSE fromUser
            ELSE fromUser

\* events.js checkPermission: the tags each required level accepts
permissionMap(level) ==
  CASE level = 0 -> {"user"}
    [] level = 1 -> {"user", "mod"}
    [] level = 2 -> {"user", "mod", "admin", "thread_admin"}
    [] level = 3 -> {"user", "mod", "admin", "thread_admin", "supper_admin"}
    [] OTHER -> {}

\* the loop stopping after the first required level
checkPermissionFirstLevel(permissions, userPermissions) ==
  IF Len(permissions) = 0 \/ Len(userPermissions) = 0 THEN FALSE
  ELSE \E perm \in permissionMap(permissions[1]) :
         Includes(userPermissions, perm)

checkPermission(permissions, userPermissions) ==
  IF Len(permissions) = 0 \/ Len(userPermissions) = 0 THEN FALSE
  ELSE \E i \in DOMAIN permissions :
         \E perm \in permissionMap(permissions[i]) :
           Includes(userPermissions, perm)

\* setpermission: the list each level name stands for (lines 56-71)
Levels == {"user", "mod", "admin", "bogus"}

levelPermissions(permissionLevel) ==
  CASE permissionLevel = "user" -> <<"user">>
    [] permissionLevel = "mod" -> <<"user", "mod">>
    [] permissionLevel = "admin" -> <<"user", "mod", "admin">>
    [] OTHER -> <<>>

----------------------------------------------------------------------------
(* Stored records *)

ThreadRecord(banned, nsfw, adminIDs, permissions) ==
  [banned |-> banned, nsfw |-> nsfw, adminIDs |-> adminIDs,
   bannedMembers |-> {}, permissions |-> permissions]

UserRecord(banned, hasPermissions, permissions) ==
  [banned |-> banned, hasPermissions |-> hasPermissions,
   permissions |-> permissions]

NoOverrides == [u \in {} |-> <<>>]

\* config/config.main.json: who is on the three global lists
Configs ==
  {[ADMINS |-> {}, MODERATORS |-> {}, ABSOLUTES |-> {}],
   [ADMINS |-> {"u3"}, MODERATORS |-> {}, ABSOLUTES |-> {}],
   [ADMINS |-> {}, MODERATORS |-> {}, ABSOLUTES |-> {"u3"}],
   [ADMINS |-> {}, MODERATORS |-> {"u2"}, ABSOLUTES |-> {"u3"}]}

\* the variables a specification does not use keep these values
IdleThreads == [t \in GroupIDs |-> ThreadRecord(FALSE, t = "g2", {}, NoOverrides)]
IdleUsers == [u \in UserIDs |-> UserRecord(FALSE, FALSE, <<>>)]

IdlePerm == resolved = None /\ spOut = "none"
IdleCmd ==
  /\ now = 0
  /\ cooldowns = <<>>
  /\ inflight = <<>>
  /\ out = None
  /\ lastRun = <<>>
IdleSvc ==
  /\ svcCooldowns = <<>>
  /\ svcInflight = <<>>
  /\ svcOut = None
  /\ svcPassed = <<>>
IdleWait ==
  /\ waiters = <<>>
  /\ replies = {}
  /\ reactions = {}
  /\ timers = {}
  /\ winflight = None
  /\ wOut = None
  /\ calls = <<>>
  /\ leases = <<>>
IdleCore ==
  /\ config = [ADMINS |-> {}, MODERATORS |-> {}, ABSOLUTES |-> {}]
  /\ threads = IdleThreads
  /\ users = IdleUsers
  /\ IdlePerm /\ IdleCmd /\ IdleSvc /\ IdleWait
IdleReg ==
  /\ svcCommands = <<>>
  /\ svcAliases = <<>>
  /\ reloading = None
  /\ regOut = None
  /\ registered = {}
IdleLoop == sessions = <<>> /\ loops = <<>>
IdleBoot == armed = <<>> /\ boot = None
IdleLaunch == launcher = None /\ launchOut = None
IdleDb == dataThreads = <<>> /\ dataUsers = <<>> /\ disk = <<>> /\ dbOut = None
IdleCheck == checkIn = None /\ checkOut = None
IdleEv == evInflight = None /\ evOut = None
IdleApp == appIn = None /\ appFile = None /\ appOut = None
IdleLock == lockFile = None /\ bots = {} /\ starters = <<>> /\ spawned = 0 /\ isTermux = FALSE
IdlePlugin == plugins = <<>> /\ enabled = {} /\ states = <<>> /\ stack = <<>> /\ plugOut = None
IdleSys ==
  /\ IdleReg /\ IdleLoop /\ IdleBoot /\ IdleLaunch /\ IdleDb /\ IdleCheck /\ IdleEv
  /\ IdleApp /\ IdleLock /\ IdlePlugin

\* the state of everything a service does not touch
IdleOutsideReg ==
  /\ IdleCore /\ IdleLoop /\ IdleBoot /\ IdleLaunch /\ IdleDb /\ IdleCheck /\ IdleEv
  /\ IdleApp /\ IdleLock /\ IdlePlugin
IdleOutsideLoop ==
  /\ IdleCore /\ IdleReg /\ IdleBoot /\ IdleLaunch /\ IdleDb /\ IdleCheck /\ IdleEv
  /\ IdleApp /\ IdleLock /\ IdlePlugin
IdleOutsideBoot ==
  /\ IdleCore /\ IdleReg /\ IdleLoop /\ IdleLaunch /\ IdleDb /\ IdleCheck /\ IdleEv
  /\ IdleApp /\ IdleLock /\ IdlePlugin
IdleOutsideLaunch ==
  /\ IdleCore /\ IdleReg /\ IdleLoop /\ IdleBoot /\ IdleDb /\ IdleCheck /\ IdleEv
  /\ IdleApp /\ IdleLock /\ IdlePlugin
IdleOutsideDb ==
  /\ IdleCore /\ IdleReg /\ IdleLoop /\ IdleBoot /\ IdleLaunch /\ IdleCheck /\ IdleEv
  /\ IdleApp /\ IdleLock /\ IdlePlugin
IdleOutsideCheck ==
  /\ IdleCore /\ IdleReg /\ IdleLoop /\ IdleBoot /\ IdleLaunch /\ IdleDb /\ IdleEv
  /\ IdleApp /\ IdleLock /\ IdlePlugin
IdleOutsideEv ==
  /\ IdlePerm /\ IdleCmd /\ IdleSvc /\ IdleWait /\ IdleReg /\ IdleLoop /\ IdleBoot /\ IdleLaunch /\ IdleDb /\ IdleCheck
  /\ IdleApp /\ IdleLock /\ IdlePlugin
IdleOutsideApp ==
  IdleCore /\ IdleReg /\ IdleLoop /\ IdleBoot /\ IdleLaunch /\ IdleDb /\ IdleCheck /\ IdleEv /\ IdleLock /\ IdlePlugin
IdleOutsideLock ==
  IdleCore /\ IdleReg /\ IdleLoop /\ IdleBoot /\ IdleLaunch /\ IdleDb /\ IdleCheck /\ IdleEv /\ IdleApp /\ IdlePlugin
IdleOutsidePlugin ==
  IdleCore /\ IdleReg /\ IdleLoop /\ IdleBoot /\ IdleLaunch /\ IdleDb /\ IdleCheck /\ IdleEv /\ IdleApp /\ IdleLock

----------------------------------------------------------------------------
(* Specification SpecPerm: permission resolution and setpermission *)

PermThreads == {"g1", "dm"}
PermTargets == {"u1", "u2"}

InitPerm ==
  /\ config \in Configs
  /\ \E admins \in SUBSET {"u2"}, stored \in {NoOverrides, [u \in {"u1"} |-> <<"mod">>]} :
       threads = [t \in GroupIDs |->
                    ThreadRecord(FALSE, t = "g2",
                                 IF t = "g1" THEN admins ELSE {},
                                 IF t = "g1" THEN stored ELSE NoOverrides)]
  /\ \E own \in BOOLEAN :
       users = [u \in UserIDs |->
                  UserRecord(FALSE, own /\ u = "u1", IF own /\ u = "u1" THEN <<"mod">> ELSE <<>>)]
  /\ IdlePerm /\ IdleCmd /\ IdleSvc /\ IdleWait /\ IdleSys

\* a caller awaits getUserPermissions(userID, threadID)
ResolvePermissions(userID, threadID) ==
  /\ resolved' = [userID |-> userID, threadID |-> threadID,
                  global |-> (userID \in config.ADMINS \cup config.ABSOLUTES),
                  moderator |-> (userID \in config.MODERATORS),
                  threadAdmin |-> (threadID \in DOMAIN threads
                                   /\ userID \in threads[threadID].adminIDs),
                  hasOverride |-> (threadID \in DOMAIN threads
                                   /\ userID \in DOMAIN threads[threadID].permissions),
                  override |-> getUserPermissionsFromDB(threadID, userID),
                  hasOwn |-> users[userID].hasPermissions,
                  result |-> getUserPermissions(userID, threadID)]
  /\ UNCHANGED <<config, threads, users, spOut, cmdVars, svcVars, waitVars, sysVars>>

\* database.js updateUserPermissions: the thread map after the call
updatedThreads(threadID, userID, permissions) ==
  IF threadID \in DOMAIN threads
    THEN [threads EXCEPT ![threadID].permissions =
            [u \in (DOMAIN @) \cup {userID} |->
               IF u = userID THEN permissions ELSE @[u]]]
    ELSE threads

\* database.js updateUserPermissions: its return value
updateUserPermissions(threadID, persistOk) ==
  threadID \in DOMAIN threads /\ persistOk

\* setpermission run (part_007 lines 13-92)
SetPermission(senderID, threadID, targetUserID, permissionLevel) ==
  LET senderPermissions == getUserPermissions(senderID, threadID)
      permissions == levelPermissions(permissionLevel)
  IN IF ~Includes(senderPermissions, "admin")
          /\ ~Includes(senderPermissions, "supper_admin")
       THEN spOut' = "denied" /\ UNCHANGED threads
     ELSE IF targetUserID = ""
       THEN spOut' = "needTarget" /\ UNCHANGED threads
     ELSE IF permissionLevel = ""
       THEN spOut' = "needLevel" /\ UNCHANGED threads
     ELSE IF permissions = <<>>
       THEN spOut' = "invalidLevel" /\ UNCHANGED threads
     ELSE \E persistOk \in BOOLEAN :
            /\ threads' = updatedThreads(threadID, targetUserID, permissions)
            /\ spOut' = IF updateUserPermissions(threadID, persistOk)
                          THEN "updated" ELSE "failed"

SetPermissionRun ==
  /\ \E senderID \in UserIDs, threadID \in PermThreads,
        targetUserID \in PermTargets \cup {""},
        permissionLevel \in Levels \cup {""} :
       SetPermission(senderID, threadID, targetUserID, permissionLevel)
  /\ UNCHANGED <<config, users, resolved, cmdVars, svcVars, waitVars, sysVars>>

Resolve ==
  \E userID \in UserIDs, threadID \in PermThreads :
    ResolvePermissions(userID, threadID)

NextPerm == Resolve \/ SetPermissionRun

SpecPerm == InitPerm /\ [][NextPerm]_vars

----------------------------------------------------------------------------
(* The command registry (global.plugins.commandsConfig) *)

NoCooldown == -1
NoRole == -1

\* config objects of the loaded commands; cooldown NoCooldown: none declared
commandsConfig(commandName) ==
  CASE commandName = "ping" ->
         [permissions |-> <<0>>, cooldown |-> 2, nsfw |-> FALSE, isAbsolute |-> FALSE,
          role |-> NoRole]
    [] commandName = "setpermission" ->
         [permissions |-> <<2>>, cooldown |-> 3, nsfw |-> FALSE, isAbsolute |-> FALSE,
          role |-> NoRole]
    [] commandName = "nsfw" ->
         [permissions |-> <<0>>, cooldown |-> NoCooldown, nsfw |-> TRUE,
          isAbsolute |-> FALSE, role |-> NoRole]
    [] commandName = "zero" ->
         [permissions |-> <<0>>, cooldown |-> 0, nsfw |-> FALSE, isAbsolute |-> FALSE,
          role |-> NoRole]

\* global.plugins.commands: the names registered
commands == {"ping", "setpermission", "nsfw", "zero"}

\* global.plugins.commandsAliases: command -> its aliases
commandsAliases(command) ==
  CASE command = "ping" -> {"p"}
    [] command = "setpermission" -> {"setperm"}
    [] OTHER -> {}

NotFound == ""

\* events.js findCommand: the command a typed name stands for
findCommand(commandName) ==
  IF commandName \in commands THEN commandName
  ELSE IF \E command \in commands : commandName \in commandsAliases(command)
    THEN CHOOSE command \in commands : commandName \in commandsAliases(command)
    ELSE NotFound

\* (commandInfo.cooldown || 3): the seconds handleCommand waits for
effectiveCooldown(commandName) ==
  LET cooldown == commandsConfig(commandName).cooldown
  IN IF cooldown = NoCooldown \/ cooldown = 0 THEN 3 ELSE cooldown

----------------------------------------------------------------------------
(* Specification SpecCmd: handleCommand *)

StartTime == 1000
TickMs == 1000
MaxTicks == 3

Slots == {1, 2}

\* the messages the transport delivers: sender, thread, command name typed
\* after the prefix
CmdEvents ==
  {[senderID |-> "u1", threadID |-> "g1", commandName |-> "ping"],
   [senderID |-> "u1", threadID |-> "g1", commandName |-> "p"],
   [senderID |-> "u1", threadID |-> "g1", commandName |-> "nope"],
   [senderID |-> "u1", threadID |-> "g1", commandName |-> "zero"],
   [senderID |-> "u1", threadID |-> "g1", commandName |-> "nsfw"],
   [senderID |-> "u1", threadID |-> "g2", commandName |-> "nsfw"],
   [senderID |-> "u1", threadID |-> "dm", commandName |-> "nsfw"],
   [senderID |-> "u1", threadID |-> "g1", commandName |-> "setpermission"],
   [senderID |-> "u2", threadID |-> "g1", commandName |-> "ping"],
   [senderID |-> "u3", threadID |-> "g1", commandName |-> "ping"],
   [senderID |-> "u3", threadID |-> "g1", commandName |-> "setpermission"]}

\* what the handler body does once called
Behaviours == {"return", "throwSync", "rejectEarly", "rejectLate"}

isGroup(threadID) == threadID \in GroupIDs

\* events.js checkBanStatus
checkBanStatus(data, userID) ==
  \/ (data.user # None /\ data.user.banned)
  \/ (data.thread # None /\ data.thread.banned)
  \/ (data.thread # None /\ userID \in data.thread.bannedMembers)

\* the stamp of (senderID, commandName) in a cooldown map, 0 when absent
stampOf(map, senderID, commandName) ==
  IF senderID \in DOMAIN map /\ commandName \in DOMAIN map[senderID]
    THEN map[senderID][commandName]
    ELSE 0

\* cooldowns.set(senderID, userCooldown) after userCooldown[commandName] = stamp
withStamp(map, senderID, commandName, stamp) ==
  LET userCooldown == IF senderID \in DOMAIN map THEN map[senderID] ELSE <<>>
      updated == [c \in (DOMAIN userCooldown) \cup {commandName} |->
                    IF c = commandName THEN stamp ELSE userCooldown[c]]
  IN [u \in (DOMAIN map) \cup {senderID} |->
        IF u = senderID THEN updated ELSE map[u]]

\* the window compared in seconds against a difference in milliseconds
isReadyInSeconds(senderID, commandName) ==
  \/ stampOf(cooldowns, senderID, commandName) = 0
  \/ now - stampOf(cooldowns, senderID, commandName)
       >= effectiveCooldown(commandName)

\* handleCommand lines 298-302
isReady(senderID, commandName) ==
  \/ stampOf(cooldowns, senderID, commandName) = 0
  \/ now - stampOf(cooldowns, senderID, commandName)
       >= effectiveCooldown(commandName) * 1000

\* the gate with the group test the wrong way round
nsfwAllowedGroupFlipped(thread, commandName, threadID) ==
  LET isNSFWEnabled == thread # None /\ thread.nsfw
      isCommandNSFW == commandsConfig(commandName).nsfw
  IN \/ (isNSFWEnabled /\ isCommandNSFW)
     \/ ~isCommandNSFW
     \/ isGroup(threadID)

\* handleCommand lines 305-312
nsfwAllowed(thread, commandName, threadID) ==
  LET isNSFWEnabled == thread # None /\ thread.nsfw
      isCommandNSFW == commandsConfig(commandName).nsfw
  IN \/ (isNSFWEnabled /\ isCommandNSFW)
     \/ ~isCommandNSFW
     \/ ~isGroup(threadID)

\* handleCommand lines 286-295
isValidUser(senderID, threadID, commandName) ==
  LET commandInfo == commandsConfig(commandName)
      userPermissions == getUserPermissions(senderID, threadID)
      isAbsoluteUser == senderID \in config.ABSOLUTES
      checkAbsolute == IF commandInfo.isAbsolute THEN isAbsoluteUser ELSE TRUE
  IN checkPermission(commandInfo.permissions, userPermissions) /\ checkAbsolute

Outcome(slot, e, stage, invoked, reply, reaction, behaviour) ==
  [slot |-> slot, senderID |-> e.senderID, threadID |-> e.threadID,
   commandName |-> findCommand(e.commandName), stage |-> stage, at |-> now,
   stamp |-> stampOf(cooldowns, e.senderID, findCommand(e.commandName)),
   ran |-> stampOf(lastRun, e.senderID, findCommand(e.commandName)),
   invoked |-> invoked, reply |-> reply, reaction |-> reaction,
   behaviour |-> behaviour]

InitCmd ==
  /\ config = [ADMINS |-> {"u3"}, MODERATORS |-> {}, ABSOLUTES |-> {}]
  /\ threads = [t \in GroupIDs |-> ThreadRecord(FALSE, t = "g2", {}, NoOverrides)]
  /\ users = [u \in UserIDs |-> UserRecord(u = "u2", FALSE, <<>>)]
  /\ now = StartTime
  /\ cooldowns = <<>>
  /\ lastRun = <<>>
  /\ inflight \in [Slots -> {[event |-> e, pc |-> "idle"] : e \in CmdEvents}]
  /\ out = None
  /\ IdlePerm /\ IdleSvc /\ IdleWait /\ IdleSys

\* the listen callback calls handleCommand(event); it runs to its first await
Receive(slot) ==
  /\ inflight[slot].pc = "idle"
  /\ inflight' = [inflight EXCEPT ![slot].pc = "lookup"]
  /\ UNCHANGED <<config, threads, users, now, cooldowns, out, lastRun,
                 permVars, svcVars, waitVars, sysVars>>

\* handleCommand lines 256-282: the records arrive, ban check, command lookup
Lookup(slot) ==
  LET e == inflight[slot].event
      data == [thread |-> IF isGroup(e.threadID) THEN ThreadsGet(e.threadID) ELSE None,
               user |-> UsersGet(e.senderID)]
  IN /\ inflight[slot].pc = "lookup"
     /\ IF checkBanStatus(data, e.senderID)
          THEN /\ inflight' = [inflight EXCEPT ![slot].pc = "idle"]
               /\ out' = Outcome(slot, e, "banned", FALSE, "none", FALSE, "none")
        ELSE IF findCommand(e.commandName) = NotFound
          THEN /\ inflight' = [inflight EXCEPT ![slot].pc = "idle"]
               /\ out' = Outcome(slot, e, "notfound", FALSE, "none", FALSE, "none")
          ELSE /\ inflight' = [inflight EXCEPT ![slot].pc = "perms"]
               /\ UNCHANGED out
     /\ UNCHANGED <<config, threads, users, now, cooldowns, lastRun,
                    permVars, svcVars, waitVars, sysVars>>

\* handleCommand lines 333-352: the handler is called, not awaited, inside
\* a try/catch; only an exception thrown before the call returns is caught
handlerReply(behaviour) == IF behaviour = "throwSync" THEN "error" ELSE "none"

\* handleCommand lines 286-362: which branch an invocation ends in
gate(senderID, threadID, commandName) ==
  LET thread == IF isGroup(threadID) THEN ThreadsGet(threadID) ELSE None
  IN IF ~isValidUser(senderID, threadID, commandName) THEN "denied"
     ELSE IF ~isReady(senderID, commandName) THEN "cooldown"
     ELSE IF ~nsfwAllowed(thread, commandName, threadID) THEN "nsfw"
     ELSE "run"

\* handleCommand lines 345-358: the text sent to the thread in a branch
replyOf(stage, behaviour) ==
  IF stage = "run" THEN handlerReply(behaviour)
  ELSE IF stage = "nsfw" THEN "nsfwNotAllowed"
  ELSE "none"

\* the clock reaction set on every refusal
reactionOfEveryRefusal(stage) == stage \in {"cooldown", "denied"}

\* handleCommand line 361: the branch that sets the clock reaction
reactionOf(stage) == stage = "cooldown"

\* the stamp refreshed by a not-ready invocation as well
cooldownsAfterRefreshing(stage, senderID, commandName) ==
  IF stage \in {"run", "cooldown"}
    THEN withStamp(cooldowns, senderID, commandName, now)
    ELSE cooldowns

\* handleCommand lines 313-314: the cooldown map when the branch is left
cooldownsAfter(stage, senderID, commandName) ==
  IF stage = "run"
    THEN withStamp(cooldowns, senderID, commandName, now)
    ELSE cooldowns

\* handleCommand lines 286-362, from the return of getUserPermissions on
Dispatch(slot) ==
  LET e == inflight[slot].event
      commandName == findCommand(e.commandName)
      stage == gate(e.senderID, e.threadID, commandName)
  IN /\ inflight[slot].pc = "perms"
     /\ inflight' = [inflight EXCEPT ![slot].pc = "idle"]
     /\ cooldowns' = cooldownsAfter(stage, e.senderID, commandName)
     /\ IF stage = "run"
          THEN \E behaviour \in Behaviours :
                 /\ lastRun' = withStamp(lastRun, e.senderID, commandName, now)
                 /\ out' = Outcome(slot, e, "run", TRUE, replyOf(stage, behaviour),
                                   reactionOf(stage), behaviour)
          ELSE /\ UNCHANGED lastRun
               /\ out' = Outcome(slot, e, stage, FALSE, replyOf(stage, "none"),
                                 reactionOf(stage), "none")
     /\ UNCHANGED <<config, threads, users, now, permVars, svcVars, waitVars, sysVars>>

Tick ==
  /\ now < StartTime + MaxTicks * TickMs
  /\ now' = now + TickMs
  /\ UNCHANGED <<config, threads, users, cooldowns, inflight, out, lastRun,
                 permVars, svcVars, waitVars, sysVars>>

ReceiveCommand == \E slot \in Slots : Receive(slot)
LookupCommand == \E slot \in Slots : Lookup(slot)
DispatchCommand == \E slot \in Slots : Dispatch(slot)

NextCmd == ReceiveCommand \/ LookupCommand \/ DispatchCommand \/ Tick

SpecCmd == InitCmd /\ [][NextCmd]_vars

----------------------------------------------------------------------------
(* Specification SpecSvc: CommandService.execute *)

\* the calls made to execute: sender and command
SvcEvents ==
  {[senderID |-> "u1", commandName |-> "ping"],
   [senderID |-> "u1", commandName |-> "zero"],
   [senderID |-> "u1", commandName |-> "setpermission"],
   [senderID |-> "u3", commandName |-> "ping"]}

\* CommandService.loadCommand lines 567-570: the cooldown after normalising
loadedCooldown(commandName) ==
  LET cooldown == commandsConfig(commandName).cooldown
  IN IF cooldown = NoCooldown \/ cooldown = 0 THEN 3 ELSE cooldown

\* CommandService.checkPermissions: TRUE when it does not throw
checkPermissions(commandName, senderID) ==
  LET role == commandsConfig(commandName).role
  IN /\ ~(role = 2 /\ senderID \notin config.ABSOLUTES)
     /\ ~(role = 1 /\ senderID \notin config.MODERATORS
                   /\ senderID \notin config.ABSOLUTES)

\* the expiry stored for (commandName, userID), 0 when there is none
expiryOf(commandName, userID) ==
  IF commandName \in DOMAIN svcCooldowns /\ userID \in DOMAIN svcCooldowns[commandName]
    THEN svcCooldowns[commandName][userID]
    ELSE 0

\* CommandService.checkCooldown: TRUE when it does not throw
checkCooldown(commandName, userID) ==
  \/ loadedCooldown(commandName) = 0
  \/ ~(expiryOf(commandName, userID) # 0 /\ now < expiryOf(commandName, userID))

\* CommandService.checkCooldown lines 711-713: the map it leaves behind
withCommandMap(map, commandName) ==
  IF commandName \in DOMAIN map THEN map
  ELSE [c \in (DOMAIN map) \cup {commandName} |->
          IF c = commandName THEN <<>> ELSE map[c]]

\* CommandService.setCooldown
setCooldown(commandName, userID, cooldownSeconds) ==
  IF cooldownSeconds = 0 THEN svcCooldowns
  ELSE LET map == withCommandMap(svcCooldowns, commandName)
       IN [map EXCEPT ![commandName] =
             [u \in (DOMAIN @) \cup {userID} |->
                IF u = userID THEN now + cooldownSeconds * 1000 ELSE @[u]]]

\* CommandService.cleanupCooldowns
cleanupCooldowns ==
  LET kept(c) == {u \in DOMAIN svcCooldowns[c] : ~(now > svcCooldowns[c][u])}
      names == {c \in DOMAIN svcCooldowns : kept(c) # {}}
  IN [c \in names |-> [u \in kept(c) |-> svcCooldowns[c][u]]]

passedOf(senderID, commandName) ==
  IF <<senderID, commandName>> \in DOMAIN svcPassed
    THEN svcPassed[<<senderID, commandName>>]
    ELSE [at |-> 0, outcome |-> "none"]

withPassed(senderID, commandName, at, outcome) ==
  [k \in (DOMAIN svcPassed) \cup {<<senderID, commandName>>} |->
     IF k = <<senderID, commandName>>
       THEN [at |-> at, outcome |-> outcome]
       ELSE svcPassed[k]]

SvcOutcome(slot, e, result) ==
  [slot |-> slot, senderID |-> e.senderID, commandName |-> e.commandName,
   at |-> now, result |-> result,
   passed |-> passedOf(e.senderID, e.commandName)]

InitSvc ==
  /\ config = [ADMINS |-> {"u3"}, MODERATORS |-> {}, ABSOLUTES |-> {}]
  /\ threads = IdleThreads
  /\ users = IdleUsers
  /\ now = StartTime
  /\ cooldowns = <<>> /\ inflight = <<>> /\ out = None /\ lastRun = <<>>
  /\ svcCooldowns = <<>>
  /\ svcInflight \in [Slots -> {[event |-> e, pc |-> "idle", passedAt |-> 0] : e \in SvcEvents}]
  /\ svcOut = None
  /\ svcPassed = <<>>
  /\ IdlePerm /\ IdleWait /\ IdleSys

\* execute lines 605-626: the checks, then the handler is called and awaited
ExecStart(slot) ==
  LET e == svcInflight[slot].event
  IN /\ svcInflight[slot].pc = "idle"
     /\ IF ~checkPermissions(e.commandName, e.senderID)
          THEN /\ svcOut' = SvcOutcome(slot, e, "denied")
               /\ UNCHANGED <<svcCooldowns, svcInflight, svcPassed>>
        ELSE IF ~checkCooldown(e.commandName, e.senderID)
          THEN /\ svcOut' = SvcOutcome(slot, e, "cooldown")
               /\ svcCooldowns' = withCommandMap(svcCooldowns, e.commandName)
               /\ UNCHANGED <<svcInflight, svcPassed>>
        ELSE /\ svcOut' = SvcOutcome(slot, e, "started")
             /\ svcCooldowns' = withCommandMap(svcCooldowns, e.commandName)
             /\ svcInflight' = [svcInflight EXCEPT ![slot].pc = "running",
                                                   ![slot].passedAt = now]
             /\ svcPassed' = withPassed(e.senderID, e.commandName, now, "running")
     /\ UNCHANGED <<config, threads, users, permVars, cmdVars, waitVars, sysVars>>

\* execute lines 626-650: the handler's promise settles
ExecFinish(slot) ==
  LET e == svcInflight[slot].event
  IN /\ svcInflight[slot].pc = "running"
     /\ svcInflight' = [svcInflight EXCEPT ![slot].pc = "idle"]
     /\ \E returned \in BOOLEAN :
          /\ svcCooldowns' =
               IF returned
                 THEN setCooldown(e.commandName, e.senderID, loadedCooldown(e.commandName))
                 ELSE svcCooldowns
          /\ svcOut' = SvcOutcome(slot, e, IF returned THEN "returned" ELSE "threw")
          /\ svcPassed' =
               IF passedOf(e.senderID, e.commandName).at = svcInflight[slot].passedAt
                 THEN withPassed(e.senderID, e.commandName, svcInflight[slot].passedAt,
                                 IF returned THEN "returned" ELSE "threw")
                 ELSE svcPassed
     /\ UNCHANGED <<config, threads, users, permVars, cmdVars, waitVars, sysVars>>

\* the interval timer of CommandService.initialize fires
CleanupCooldowns ==
  /\ svcCooldowns' = cleanupCooldowns
  /\ UNCHANGED <<config, threads, users, svcInflight, svcOut, svcPassed,
                 permVars, cmdVars, waitVars, sysVars>>

ExecuteStart == \E slot \in Slots : ExecStart(slot)
ExecuteFinish == \E slot \in Slots : ExecFinish(slot)

NextSvc == ExecuteStart \/ ExecuteFinish \/ CleanupCooldowns \/ Tick

SpecSvc == InitSvc /\ [][NextSvc]_vars

----------------------------------------------------------------------------
(* Specification SpecWait: reply and reaction waiters *)

MessageIDs == {"m1"}
Kinds == {"reply", "reaction"}
MaxTimers == 2
MaxCalls == 2

\* standbyTime arguments, in milliseconds; 0 arms no timer
StandbyTimes == {0, 2000}

\* the map of a kind: the messageIDs it holds
waiterMap(kind) == IF kind = "reply" THEN replies ELSE reactions

\* messageFunctionCallback lines 92-98: baseInput of a message just sent
baseInput(author) ==
  [author |-> author, author_only |-> TRUE, callback |-> "none"]

\* no registration: the entry is absent, or was deleted when its time was up
Vacant == [until |-> 0, authorOnly |-> TRUE]

\* a registration made now: until 0 stands for no expiry
Lease(authorOnly, standbyTime) ==
  [until |-> IF standbyTime > 0 THEN now + standbyTime ELSE 0,
   authorOnly |-> authorOnly]

InitWait ==
  /\ config = [ADMINS |-> {}, MODERATORS |-> {}, ABSOLUTES |-> {}]
  /\ threads = IdleThreads
  /\ users = [u \in UserIDs |-> UserRecord(u = "u3", FALSE, <<>>)]
  /\ now = StartTime
  /\ cooldowns = <<>> /\ inflight = <<>> /\ out = None /\ lastRun = <<>>
  /\ waiters = [m \in MessageIDs |-> baseInput("u1")]
  /\ replies = {}
  /\ reactions = {}
  /\ timers = {}
  /\ winflight = None
  /\ wOut = None
  /\ calls = [k \in Kinds |-> [m \in MessageIDs |-> 0]]
  /\ leases = [k \in Kinds |-> [m \in MessageIDs |-> Vacant]]
  /\ IdlePerm /\ IdleSvc /\ IdleSys

\* a registration that arms no timer
armedTimersNone(kind, messageID, standbyTime) == timers

\* lines 106-113 / 122-129: the setTimeout armed when standbyTime > 0
armedTimers(kind, messageID, standbyTime) ==
  IF standbyTime > 0
    THEN timers \cup {[kind |-> kind, messageID |-> messageID,
                       due |-> now + standbyTime]}
    ELSE timers

\* addReplyEvent / addReactEvent (lines 100-130) called with
\* data = {callback, author_only} and standbyTime
AddEvent(kind, messageID, callable, authorOnly, standbyTime) ==
  /\ Cardinality(timers) < MaxTimers
  /\ IF ~callable
       THEN UNCHANGED <<waiters, replies, reactions, timers, calls, leases>>
       ELSE /\ waiters' = [waiters EXCEPT ![messageID] =
                             [@ EXCEPT !.callback = kind, !.author_only = authorOnly]]
            /\ replies' = IF kind = "reply" THEN replies \cup {messageID} ELSE replies
            /\ reactions' = IF kind = "reaction" THEN reactions \cup {messageID}
                            ELSE reactions
            /\ timers' = armedTimers(kind, messageID, standbyTime)
            /\ calls' = [calls EXCEPT ![kind][messageID] = 0]
            /\ leases' = [leases EXCEPT ![kind][messageID] =
                            Lease(authorOnly, standbyTime)]
  /\ UNCHANGED <<config, threads, users, winflight, wOut, permVars, cmdVars, svcVars, sysVars>>

\* the setTimeout callback of lines 107-112 / 122-127 runs
TimerFires(timer) ==
  /\ timer \in timers
  /\ timer.due <= now
  /\ timers' = timers \ {timer}
  /\ replies' = IF timer.kind = "reply" THEN replies \ {timer.messageID} ELSE replies
  /\ reactions' = IF timer.kind = "reaction" THEN reactions \ {timer.messageID}
                  ELSE reactions
  /\ leases' = IF timer.messageID \notin waiterMap(timer.kind) THEN leases
               ELSE [leases EXCEPT ![timer.kind][timer.messageID] = Vacant]
  /\ UNCHANGED <<config, threads, users, waiters, winflight, wOut, calls,
                 permVars, cmdVars, svcVars, sysVars>>

WaitOutcome(e, stage, reply, behaviour) ==
  [kind |-> e.kind, messageID |-> e.messageID, senderID |-> e.senderID,
   stage |-> stage, reply |-> reply, behaviour |-> behaviour]

\* handleReply lines 436-453 / handleReaction lines 368-384: the has() test,
\* then the handler awaits the thread and user records
WaiterReceive(kind, messageID, senderID) ==
  /\ winflight = None
  /\ calls[kind][messageID] < MaxCalls
  /\ LET e == [kind |-> kind, messageID |-> messageID, senderID |-> senderID]
     IN IF messageID \in waiterMap(kind)
          THEN winflight' = e /\ UNCHANGED wOut
          ELSE /\ wOut' = WaitOutcome(e, "nowaiter", "none", "none")
               /\ UNCHANGED winflight
  /\ UNCHANGED <<config, threads, users, waiters, replies, reactions, timers, calls,
                 leases, permVars, cmdVars, svcVars, sysVars>>

\* handleReply lines 455-502 / handleReaction lines 386-433
WaiterDispatch ==
  /\ winflight # None
  /\ winflight' = None
  /\ LET e == winflight
         data == [thread |-> ThreadsGet("g1"), user |-> UsersGet(e.senderID)]
         eventData == waiters[e.messageID]
     IN IF checkBanStatus(data, e.senderID)
          THEN wOut' = WaitOutcome(e, "banned", "none", "none") /\ UNCHANGED calls
        ELSE IF e.messageID \notin waiterMap(e.kind)
          THEN wOut' = WaitOutcome(e, "rejected", "none", "none") /\ UNCHANGED calls
        ELSE IF eventData.author_only /\ eventData.author # e.senderID
          THEN wOut' = WaitOutcome(e, "notauthor", "none", "none") /\ UNCHANGED calls
        ELSE \E behaviour \in Behaviours :
               /\ calls' = [calls EXCEPT ![e.kind][e.messageID] = @ + 1]
               /\ wOut' = WaitOutcome(e, "called", handlerReply(behaviour), behaviour)
  /\ UNCHANGED <<config, threads, users, waiters, replies, reactions, timers, leases,
                 permVars, cmdVars, svcVars, sysVars>>

\* time passes, up to the next instant a timer is due at; a due timer runs
\* before later events are delivered
WaitTick ==
  /\ now < StartTime + MaxTicks * TickMs
  /\ \A timer \in timers : timer.due > now
  /\ LET dues == {timer.due : timer \in timers}
     IN now' = IF \E due \in dues : due < now + TickMs
                 THEN CHOOSE due \in dues : \A other \in dues : due <= other
                 ELSE now + TickMs
  /\ UNCHANGED <<config, threads, users, cooldowns, inflight, out, lastRun,
                 permVars, svcVars, waitVars, sysVars>>

Register ==
  \E kind \in Kinds, messageID \in MessageIDs, callable \in BOOLEAN,
     authorOnly \in BOOLEAN, standbyTime \in StandbyTimes :
    AddEvent(kind, messageID, callable, authorOnly, standbyTime)

Expire == \E timer \in timers : TimerFires(timer)

ReceiveWaiterEvent ==
  \E kind \in Kinds, messageID \in MessageIDs, senderID \in UserIDs :
    WaiterReceive(kind, messageID, senderID)

NextWait == Register \/ Expire \/ ReceiveWaiterEvent \/ WaiterDispatch \/ WaitTick

SpecWait == InitWait /\ [][NextWait]_vars

----------------------------------------------------------------------------
(* Specification SpecLease: the lifetime of the waiters of one author *)

\* a handler registers a waiter on the message it sent, with the defaults
\* of baseInput
RegisterWaiter ==
  \E kind \in Kinds, standbyTime \in StandbyTimes :
    AddEvent(kind, "m1", TRUE, TRUE, standbyTime)

\* the author replies or reacts to that message
AuthorEvent == \E kind \in Kinds : WaiterReceive(kind, "m1", "u1")

NextLease == RegisterWaiter \/ Expire \/ AuthorEvent \/ WaiterDispatch \/ WaitTick

SpecLease == InitWait /\ [][NextLease]_vars

----------------------------------------------------------------------------
(* Specification SpecRecord: what addReplyEvent / addReactEvent are given *)

\* the values a handler may pass as data; undefined takes the default {}
Records == {"undefined", "null", "string", "array", "object",
            "object with callback: string", "object with callback: function"}

\* the record holds a function under callback
hasCallback(data) == data = "object with callback: function"

\* lines 101-102 / 117-118: what the two guards make of data.  typeof null
\* is "object" and null is no array, so line 102 reads null.callback
guarded(data) ==
  IF data \in {"string", "array"} THEN "returned"
  ELSE IF data = "null" THEN "TypeError"
  ELSE IF ~hasCallback(data) THEN "returned"
  ELSE "stored"

\* the maps and pending timers a registration may touch
Registrations ==
  [waiters |-> waiters, replies |-> replies, reactions |-> reactions,
   timers |-> timers]

\* addReplyEvent / addReactEvent (lines 100-130) called with data, which
\* keeps the author_only of baseInput
AddRecord(kind, messageID, data, standbyTime) ==
  /\ Cardinality(timers) < MaxTimers
  /\ IF guarded(data) = "stored"
       THEN /\ waiters' = [waiters EXCEPT ![messageID] =
                             [@ EXCEPT !.callback = kind]]
            /\ replies' = IF kind = "reply" THEN replies \cup {messageID} ELSE replies
            /\ reactions' = IF kind = "reaction" THEN reactions \cup {messageID}
                            ELSE reactions
            /\ timers' = armedTimers(kind, messageID, standbyTime)
            /\ calls' = [calls EXCEPT ![kind][messageID] = 0]
            /\ leases' = [leases EXCEPT ![kind][messageID] =
                            Lease(waiters[messageID].author_only, standbyTime)]
       ELSE UNCHANGED <<waiters, replies, reactions, timers, calls, leases>>
  /\ wOut' = [kind |-> kind, messageID |-> messageID, senderID |-> "none",
              stage |-> guarded(data), data |-> data,
              before |-> Registrations, after |-> Registrations']
  /\ UNCHANGED <<config, threads, users, winflight, permVars, cmdVars, svcVars, sysVars>>

RegisterRecord ==
  \E kind \in Kinds, data \in Records, standbyTime \in StandbyTimes :
    AddRecord(kind, "m1", data, standbyTime)

NextRecord == RegisterRecord \/ Expire \/ AuthorEvent \/ WaiterDispatch \/ WaitTick

SpecRecord == InitWait /\ [][NextRecord]_vars

----------------------------------------------------------------------------
(* Specification SpecReg: the CommandService registry *)

\* the command modules under src/commands
CommandFiles == {"ping.js", "test.js", "setpermission.js"}

\* the contents a module may have when it is imported: 1 is the file of the
\* repository, 2 is ping.js edited to declare no alias
Revisions(file) == IF file = "ping.js" THEN {1, 2} ELSE {1}

\* the config object a module exports
moduleConfig(file, revision) ==
  CASE file = "ping.js" ->
         [name |-> "ping", aliases |-> IF revision = 1 THEN {"p"} ELSE {},
          file |-> file, revision |-> revision]
    [] file = "test.js" ->
         [name |-> "test", aliases |-> {"ping"}, file |-> file, revision |-> revision]
    [] file = "setpermission.js" ->
         [name |-> "setpermission", aliases |-> {"setperm"}, file |-> file,
          revision |-> revision]

\* the names callers ask the registry for
Identifiers == {"ping", "p", "test", "setpermission", "setperm", "nope"}

\* CommandService.resolveAlias
resolveAlias(nameOrAlias) ==
  IF nameOrAlias \in DOMAIN svcCommands THEN nameOrAlias
  ELSE IF nameOrAlias \in DOMAIN svcAliases THEN svcAliases[nameOrAlias]
  ELSE NotFound

\* CommandService.getConfig
getConfig(name) ==
  IF resolveAlias(name) \in DOMAIN svcCommands
    THEN svcCommands[resolveAlias(name)]
    ELSE None

\* loadCommand lines 572-589: commands.set / configs.set, then aliases.set
commandsWith(cfg) ==
  [n \in (DOMAIN svcCommands) \cup {cfg.name} |->
     IF n = cfg.name THEN cfg ELSE svcCommands[n]]

aliasesWith(cfg) ==
  [a \in (DOMAIN svcAliases) \cup cfg.aliases |->
     IF a \in cfg.aliases THEN cfg.name ELSE svcAliases[a]]

\* reload lines 840-849: the maps after the deletes
commandsWithout(name) ==
  [n \in (DOMAIN svcCommands) \ {name} |-> svcCommands[n]]

aliasesWithout(name) ==
  [a \in {b \in DOMAIN svcAliases : svcAliases[b] # name} |-> svcAliases[a]]

RegOutcome(op, id, result) ==
  [op |-> op, id |-> id, result |-> result,
   known |-> registered,
   owners |-> {n \in DOMAIN svcCommands : id \in svcCommands[n].aliases},
   declared |-> /\ result \in DOMAIN svcCommands
                /\ (id = result \/ id \in svcCommands[result].aliases)]

InitReg ==
  /\ IdleOutsideReg
  /\ svcCommands = <<>>
  /\ svcAliases = <<>>
  /\ reloading = None
  /\ regOut = None
  /\ registered = {}

\* loadCommands awaits loadCommand(category, file) for each module once
LoadCommand(file) ==
  /\ reloading = None
  /\ \A revision \in Revisions(file) : moduleConfig(file, revision).name \notin registered
  /\ \E revision \in Revisions(file) :
       LET cfg == moduleConfig(file, revision)
       IN /\ svcCommands' = commandsWith(cfg)
          /\ svcAliases' = aliasesWith(cfg)
          /\ registered' = registered \cup {cfg.name}
          /\ regOut' = RegOutcome("load", cfg.name, cfg.name)
  /\ UNCHANGED <<reloading, outsideReg>>

\* reload lines 834-852: up to the import that loadCommand awaits
ReloadStart(name) ==
  /\ reloading = None
  /\ IF getConfig(name) = None
       THEN /\ regOut' = RegOutcome("reload", name, NotFound)
            /\ UNCHANGED <<svcCommands, svcAliases, reloading>>
       ELSE /\ svcCommands' = commandsWithout(name)
            /\ svcAliases' = aliasesWithout(name)
            /\ reloading' = [name |-> name, file |-> getConfig(name).file]
            /\ regOut' = RegOutcome("reload", name, "importing")
  /\ UNCHANGED <<registered, outsideReg>>

\* the import settles: loadCommand registers what it got, or throws
ReloadFinish ==
  /\ reloading # None
  /\ reloading' = None
  /\ \/ \E revision \in Revisions(reloading.file) :
          LET cfg == moduleConfig(reloading.file, revision)
          IN /\ svcCommands' = commandsWith(cfg)
             /\ svcAliases' = aliasesWith(cfg)
             /\ regOut' = RegOutcome("reload", reloading.name, "reloaded")
     \/ /\ regOut' = RegOutcome("reload", reloading.name, "failed")
        /\ UNCHANGED <<svcCommands, svcAliases>>
  /\ UNCHANGED <<registered, outsideReg>>

\* a caller resolves a name: execute line 610, get, getConfig
ResolveName(id) ==
  /\ regOut' = RegOutcome("resolve", id, resolveAlias(id))
  /\ UNCHANGED <<svcCommands, svcAliases, reloading, registered, outsideReg>>

Load == \E file \in CommandFiles : LoadCommand(file)
Reload == \E name \in Identifiers : ReloadStart(name)
Resolving == \E id \in Identifiers : ResolveName(id)

NextReg == Load \/ Reload \/ ReloadFinish \/ Resolving

SpecReg == InitReg /\ [][NextReg]_vars

----------------------------------------------------------------------------
(* Specification SpecKeys: the cooldown map next to the registry *)

\* execute lines 605-650 for a command of the registry: the name is resolved,
\* the checks run, the handler is awaited and the cooldown is set
Execute(id, userID) ==
  LET name == resolveAlias(id)
  IN /\ IF name = NotFound
          THEN /\ regOut' = RegOutcome("execute", id, NotFound)
               /\ UNCHANGED svcCooldowns
        ELSE IF expiryOf(name, userID) # 0 /\ now < expiryOf(name, userID)
          THEN /\ regOut' = RegOutcome("execute", id, "cooldown")
               /\ svcCooldowns' = withCommandMap(svcCooldowns, name)
          ELSE \E returned \in BOOLEAN :
                 /\ regOut' = RegOutcome("execute", id,
                                         IF returned THEN "returned" ELSE "threw")
                 /\ svcCooldowns' = IF returned THEN setCooldown(name, userID, 3)
                                    ELSE withCommandMap(svcCooldowns, name)
     /\ UNCHANGED <<svcCommands, svcAliases, reloading, registered,
                    config, threads, users, permVars, cmdVars, svcInflight, svcOut,
                    svcPassed, waitVars, loopVars, bootVars, launchVars, dbVars,
                    checkVars, evVars, appVars, lockVars, pluginVars>>

Executing == \E id \in Identifiers : Execute(id, "u1")

NextKeys == Load \/ Reload \/ ReloadFinish \/ Executing

SpecKeys == InitReg /\ [][NextKeys]_vars

----------------------------------------------------------------------------
(* Specification SpecLoop: the delayed-loop commands spam, gonhay, chuilientuc *)

LoopKinds == {"spam", "gonhay", "chuilientuc"}
LoopSlots == {1, 2}
LoopThread == "g1"

\* the number of lyrics chuilientuc walks through
LyricsLen == 2

IdleLoopRun ==
  [kind |-> "none", pc |-> "idle", i |-> 0, stopped |-> FALSE, resumed |-> FALSE]

InitLoop ==
  /\ IdleOutsideLoop
  /\ sessions = [k \in LoopKinds |-> {}]
  /\ loops = [slot \in LoopSlots |-> IdleLoopRun]

\* gonhay line 86: global.gonhay.set(threadID, sessionData) after the send
sessionsAfterSend(kind) ==
  IF kind = "gonhay"
    THEN [sessions EXCEPT ![kind] = @ \cup {LoopThread}]
    ELSE sessions

\* the handler is run with a start argument: up to its first awaited send.
\* elapsed: chuilientuc found DELAY_THREAD over for the session it met
StartLoop(slot, kind, elapsed) ==
  /\ loops[slot].pc = "idle"
  /\ IF LoopThread \in sessions[kind] /\ ~(kind = "chuilientuc" /\ elapsed)
       THEN UNCHANGED <<sessions, loops>>
       ELSE /\ sessions' = [sessions EXCEPT ![kind] = @ \cup {LoopThread}]
            /\ loops' = [loops EXCEPT ![slot] =
                           [kind |-> kind, pc |-> "sending", i |-> 0,
                            stopped |-> FALSE, resumed |-> FALSE]]
  /\ UNCHANGED <<outsideLoop>>

\* the handler is run with the argument stop
StopLoop(kind) ==
  /\ LoopThread \in sessions[kind]
  /\ sessions' = [sessions EXCEPT ![kind] = @ \ {LoopThread}]
  /\ loops' = [slot \in LoopSlots |->
                 IF loops[slot].kind = kind /\ loops[slot].pc # "idle"
                   THEN [loops[slot] EXCEPT !.stopped = TRUE]
                   ELSE loops[slot]]
  /\ UNCHANGED <<outsideLoop>>

\* the awaited message.send settles
SendSettles(slot, sent) ==
  /\ loops[slot].pc = "sending"
  /\ IF sent
       THEN /\ sessions' = sessionsAfterSend(loops[slot].kind)
            /\ loops' = [loops EXCEPT ![slot].pc = "delaying"]
       ELSE /\ sessions' = [sessions EXCEPT ![loops[slot].kind] = @ \ {LoopThread}]
            /\ loops' = [loops EXCEPT ![slot] = IdleLoopRun]
  /\ UNCHANGED <<outsideLoop>>

\* the delay is over: the loop tests its key and sends again or ends
DelayOver(slot) ==
  LET run == loops[slot]
      last == run.kind = "chuilientuc" /\ run.i + 1 >= LyricsLen
  IN /\ run.pc = "delaying"
     /\ IF ~last /\ LoopThread \in sessions[run.kind]
          THEN /\ loops' = [loops EXCEPT ![slot].pc = "sending",
                                         ![slot].i = IF run.kind = "chuilientuc"
                                                       THEN run.i + 1 ELSE 0,
                                         ![slot].resumed = run.stopped]
               /\ UNCHANGED sessions
          ELSE /\ loops' = [loops EXCEPT ![slot] = IdleLoopRun]
               /\ sessions' = IF run.kind = "chuilientuc"
                                THEN [sessions EXCEPT ![run.kind] = @ \ {LoopThread}]
                                ELSE sessions
     /\ UNCHANGED <<outsideLoop>>

StartRun == \E slot \in LoopSlots, kind \in LoopKinds, elapsed \in BOOLEAN :
              StartLoop(slot, kind, elapsed)
StopRun == \E kind \in LoopKinds : StopLoop(kind)
SendDone == \E slot \in LoopSlots, sent \in BOOLEAN : SendSettles(slot, sent)
DelayDone == \E slot \in LoopSlots : DelayOver(slot)

NextLoop == StartRun \/ StopRun \/ SendDone \/ DelayDone

SpecLoop == InitLoop /\ [][NextLoop]_vars

----------------------------------------------------------------------------
(* Specification SpecBoot: start-up, recovery and the process-wide timers *)

\* sweep: the cooldown sweep of CommandService.initialize; the others are
\* armed by booting
TimerNames == {"sweep", "refreshState", "refreshMqtt", "autoReload", "healthCheck"}

\* how many times booting may run in one process life
MaxBoots == 5

InitBoot ==
  /\ IdleOutsideBoot
  /\ armed = [t \in TimerNames |-> 0]
  /\ \E refresh \in BOOLEAN :
       boot = [phase |-> "new", loggingIn |-> 0, recovering |-> 0, booted |-> 0,
               refresh |-> refresh, listening |-> 0, current |-> FALSE,
               refreshing |-> 0]

\* booting lines 1011-1019 once loginState resolved: the timers it arms
armedAfterBooting ==
  [t \in TimerNames |->
     IF t \in {"refreshState", "refreshMqtt", "healthCheck"} THEN armed[t] + 1
     ELSE IF t = "autoReload" /\ boot.refresh THEN armed[t] + 1
     ELSE armed[t]]

\* booting line 1015: global.listenMqtt = api.listenMqtt(...), a subscription
\* more; the one global.listenMqtt held goes on listening
listeningAfterBooting == boot.listening + 1

\* start: the services initialize (CommandService.initialize arms the sweep),
\* then booting is called and awaits loginState
Start ==
  /\ boot.phase = "new"
  /\ armed' = [armed EXCEPT !["sweep"] = @ + 1]
  /\ boot' = [boot EXCEPT !.phase = "starting", !.loggingIn = 1]
  /\ UNCHANGED <<outsideBoot>>

\* loginState of a booting call settles
LoginSettles(loggedIn) ==
  /\ boot.phase \in {"starting", "running"}
  /\ boot.loggingIn > 0
  /\ IF loggedIn
       THEN /\ armed' = armedAfterBooting
            /\ boot' = [boot EXCEPT !.phase = "running", !.loggingIn = @ - 1,
                                    !.booted = @ + 1,
                                    !.listening = listeningAfterBooting,
                                    !.current = TRUE]
     ELSE IF boot.phase = "starting"
       THEN /\ armed' = [t \in TimerNames |-> 0]
            /\ boot' = [boot EXCEPT !.phase = "exited", !.loggingIn = 0,
                                    !.listening = 0, !.current = FALSE,
                                    !.refreshing = 0]
       ELSE /\ boot' = [boot EXCEPT !.loggingIn = @ - 1]
            /\ UNCHANGED armed
  /\ UNCHANGED <<outsideBoot>>

\* the uncaughtException handler (lines 841-850) schedules booting
UncaughtException ==
  /\ boot.phase = "running"
  /\ boot.booted + boot.loggingIn + boot.recovering < MaxBoots
  /\ boot' = [boot EXCEPT !.recovering = @ + 1]
  /\ UNCHANGED <<armed, outsideBoot>>

\* a health check interval finds the connection dead (lines 906-914): it
\* clears itself and schedules booting
HealthCheckFails ==
  /\ boot.phase = "running"
  /\ armed["healthCheck"] > 0
  /\ boot.booted + boot.loggingIn + boot.recovering < MaxBoots
  /\ armed' = [armed EXCEPT !["healthCheck"] = @ - 1]
  /\ boot' = [boot EXCEPT !.recovering = @ + 1]
  /\ UNCHANGED <<outsideBoot>>

\* a scheduled recovery runs: booting is called again
RecoveryRuns ==
  /\ boot.phase = "running"
  /\ boot.recovering > 0
  /\ boot' = [boot EXCEPT !.recovering = @ - 1, !.loggingIn = @ + 1]
  /\ UNCHANGED <<armed, outsideBoot>>

\* the autoReloadApplication timeout fires: global.restart ends the process
AutoReloadFires ==
  /\ boot.phase = "running"
  /\ armed["autoReload"] > 0
  /\ armed' = [t \in TimerNames |-> 0]
  /\ boot' = [boot EXCEPT !.phase = "exited", !.loggingIn = 0, !.recovering = 0,
                          !.listening = 0, !.current = FALSE, !.refreshing = 0]
  /\ UNCHANGED <<outsideBoot>>

\* a refreshMqtt interval fires (lines 1066-1073): the subscription held by
\* global.listenMqtt is stopped, then handleListen is awaited
RefreshMqttFires ==
  /\ boot.phase = "running"
  /\ boot.refreshing < armed["refreshMqtt"]
  /\ boot.listening < MaxBoots
  /\ boot' = [boot EXCEPT !.refreshing = @ + 1,
                          !.listening = IF boot.current THEN @ - 1 ELSE @,
                          !.current = FALSE]
  /\ UNCHANGED <<armed, outsideBoot>>

\* the refresh goes on after its await (lines 1075-1078): it listens again
RefreshMqttListens ==
  /\ boot.phase = "running"
  /\ boot.refreshing > 0
  /\ boot' = [boot EXCEPT !.refreshing = @ - 1, !.listening = @ + 1,
                          !.current = TRUE]
  /\ UNCHANGED <<armed, outsideBoot>>

LoginDone == \E loggedIn \in BOOLEAN : LoginSettles(loggedIn)

NextBoot ==
  \/ Start
  \/ LoginDone
  \/ UncaughtException
  \/ HealthCheckFails
  \/ RecoveryRuns
  \/ AutoReloadFires
  \/ RefreshMqttFires
  \/ RefreshMqttListens

SpecBoot == InitBoot /\ [][NextBoot]_vars

----------------------------------------------------------------------------
(* Specification SpecLaunch: the launcher's bounded auto-restart *)

_1_MINUTE == 60000
LaunchTickMs == 20000
MaxLaunchTicks == 4

\* exit codes of the child: 0 is a graceful shutdown
ExitCodes == {0, 1}

\* the restarts that fall within the last minute
restartsInWindow ==
  Cardinality({i \in DOMAIN launcher.restarts :
                 launcher.time - launcher.restarts[i] < _1_MINUTE})

InitLaunch ==
  /\ IdleOutsideLaunch
  /\ launcher = [phase |-> "child", restartCount |-> 0, time |-> 0,
                 timers |-> <<>>, restarts |-> <<>>]
  /\ launchOut = None

\* child.on("close") of startBot: handleRestartCount, then the decision
ChildCloses(code) ==
  LET restartCount == launcher.restartCount + 1
      restart == code # 0 /\ restartCount < 5
  IN /\ launcher.phase = "child"
     /\ launcher' = [launcher EXCEPT
                       !.restartCount = restartCount,
                       !.timers = Append(@, launcher.time + _1_MINUTE),
                       !.phase = IF restart THEN "waiting" ELSE "stopped"]
     /\ launchOut' = [code |-> code, at |-> launcher.time,
                      restartsInWindow |-> restartsInWindow,
                      decision |-> IF restart THEN "restart" ELSE "exit"]
     /\ UNCHANGED <<outsideLaunch>>

\* the 2 s wait is over: startBot spawns the child again
RestartChild ==
  /\ launcher.phase = "waiting"
  /\ launcher' = [launcher EXCEPT !.phase = "child",
                                  !.restarts = Append(@, launcher.time)]
  /\ UNCHANGED <<launchOut, outsideLaunch>>

\* the timeout of handleRestartCount fires
RestartCountExpires ==
  /\ launcher.phase # "stopped"
  /\ launcher.timers # <<>>
  /\ Head(launcher.timers) <= launcher.time
  /\ launcher' = [launcher EXCEPT !.restartCount = @ - 1, !.timers = Tail(@)]
  /\ UNCHANGED <<launchOut, outsideLaunch>>

\* time passes; a due timeout runs first, and the 2 s wait is shorter than
\* a step of the clock
LaunchTick ==
  /\ launcher.phase = "child"
  /\ launcher.time < MaxLaunchTicks * LaunchTickMs
  /\ IF launcher.timers = <<>> THEN TRUE ELSE Head(launcher.timers) > launcher.time
  /\ launcher' = [launcher EXCEPT
                    !.time = @ + LaunchTickMs,
                    !.restarts = SelectSeq(@, LAMBDA t :
                                   launcher.time + LaunchTickMs - t < _1_MINUTE)]
  /\ UNCHANGED <<launchOut, outsideLaunch>>

ChildExit == \E code \in ExitCodes : ChildCloses(code)

NextLaunch == ChildExit \/ RestartChild \/ RestartCountExpires \/ LaunchTick

SpecLaunch == InitLaunch /\ [][NextLaunch]_vars

----------------------------------------------------------------------------
(* Specification SpecDb: the JSON backend, updateJSON and initDatabase *)

\* the file initDatabase reads and the file updateJSON writes
ReadPath == "data/logs/database/threads.json"
WritePath == "System/core/data/threads.json"
UsersPath == "data/logs/database/users.json"
UsersWritePath == "System/core/data/users.json"

Absent == [absent |-> TRUE]
Corrupt == [corrupt |-> TRUE]

\* an entry of info.adminIDs: the bare ID, or an object wrapping it
Bare(id) == [wrapped |-> FALSE, id |-> id]
Wrapped(id) == [wrapped |-> TRUE, id |-> id]

AdminLists ==
  {<<>>, <<Bare("u1")>>, <<Wrapped("u1")>>, <<Wrapped("u1"), Bare("u2")>>}

\* the thread records Threads.get may put into global.data.threads
ThreadValues ==
  {[info |-> [adminIDs |-> a], permissions |-> perms] :
     a \in AdminLists, perms \in {NoOverrides, [u \in {"u1"} |-> <<"user", "mod">>]}}

\* a threads.json left by an earlier run
StoredThreads ==
  [t \in {"g1"} |-> [info |-> [adminIDs |-> <<Wrapped("u1"), Bare("u2")>>],
                     permissions |-> NoOverrides]]

\* a users.json left by an earlier run
StoredUsers == [u \in {"u1"} |-> [info |-> [name |-> "A"]]]

\* mapToObj and JSON.stringify: the text of a map of thread records
stringify(map) == [text |-> [k \in DOMAIN map |-> map[k]]]

\* JSON.parse of a file's content
parse(content) == content.text

\* initDatabase lines 50-52: adminIDs.map((e) => e?.id || e)
normalized(value) ==
  [value EXCEPT !.info.adminIDs = [i \in DOMAIN @ |-> Bare(@[i].id)]]

\* global.isJSON: whether a file's content parses as JSON
isJSON(content) == content # Corrupt

\* initDatabase lines 40-45 and 60-65 with the reset left out
parsedTextAsRead(content) == content

\* initDatabase lines 40-45 and 60-65: the text handed to JSON.parse
parsedText(content) == IF isJSON(content) THEN content ELSE stringify(<<>>)

\* initDatabase lines 47 and 67: JSON.parse throws on what is not JSON
parseThrows(content) == content # Absent /\ ~isJSON(parsedText(content))

\* initDatabase lines 37-55: the records it loads from a file's content
loaded(content) ==
  IF content = Absent \/ parseThrows(content) THEN <<>>
  ELSE [k \in DOMAIN parse(parsedText(content)) |->
          normalized(parse(parsedText(content))[k])]

\* initDatabase lines 57-72: the user records it loads from a file's content
loadedUsers(content) ==
  IF content = Absent \/ parseThrows(content) THEN <<>>
  ELSE parse(parsedText(content))

\* initDatabase lines 37-45 and 57-65: what the file holds afterwards
saved(content) ==
  IF content = Absent \/ ~isJSON(content) THEN stringify(<<>>) ELSE content

\* initDatabase lines 41-42 and 61-62: the files logger.warn names
warned(contents) ==
  {path \in DOMAIN contents :
     contents[path] # Absent /\ ~isJSON(contents[path])}

InitDb ==
  /\ IdleOutsideDb
  /\ dataThreads = <<>>
  /\ dataUsers = <<>>
  /\ \E content \in {Absent, Corrupt, stringify(<<>>), stringify(StoredThreads)},
        people \in {Absent, Corrupt, stringify(<<>>), stringify(StoredUsers)} :
       disk = [path \in {ReadPath, UsersPath, WritePath, UsersWritePath} |->
                 IF path = ReadPath THEN content
                 ELSE IF path = UsersPath THEN people ELSE Absent]
  /\ dbOut = [op |-> "none", written |-> None, read |-> <<>>, users |-> <<>>,
              found |-> <<>>, warned |-> {}, threw |-> FALSE]

\* a thread record enters the cache (Threads.get, handleDatabase)
CacheThread(threadID, value) ==
  /\ dataThreads' = [t \in (DOMAIN dataThreads) \cup {threadID} |->
                       IF t = threadID THEN value ELSE dataThreads[t]]
  /\ UNCHANGED <<dataUsers, disk, dbOut, outsideDb>>

\* database.js updateJSON
UpdateJSON ==
  /\ disk' = [disk EXCEPT ![WritePath] = stringify(dataThreads),
                          ![UsersWritePath] = stringify(dataUsers)]
  /\ dbOut' = [dbOut EXCEPT !.op = "write", !.written = dataThreads]
  /\ UNCHANGED <<dataThreads, dataUsers, outsideDb>>

\* the process starts again and runs initDatabase with DATABASE = "JSON"
InitDatabase ==
  LET found == [path \in {ReadPath, UsersPath} |-> disk[path]]
      threwOnThreads == parseThrows(found[ReadPath])
  IN /\ dataThreads' = loaded(found[ReadPath])
     /\ dataUsers' = IF threwOnThreads THEN <<>>
                     ELSE loadedUsers(found[UsersPath])
     /\ disk' = [disk EXCEPT ![ReadPath] = saved(@),
                             ![UsersPath] =
                               IF threwOnThreads THEN @ ELSE saved(@)]
     /\ dbOut' = [op |-> "read", written |-> dbOut.written,
                  read |-> loaded(found[ReadPath]),
                  users |-> IF threwOnThreads THEN <<>>
                            ELSE loadedUsers(found[UsersPath]),
                  found |-> found,
                  warned |-> IF threwOnThreads THEN warned(found) \ {UsersPath}
                             ELSE warned(found),
                  threw |-> threwOnThreads \/ parseThrows(found[UsersPath])]
     /\ UNCHANGED <<outsideDb>>

CacheRecord == \E value \in ThreadValues : CacheThread("g1", value)

NextDb == CacheRecord \/ UpdateJSON \/ InitDatabase

SpecDb == InitDb /\ [][NextDb]_vars

----------------------------------------------------------------------------
(* Specification SpecCheck: checkPermission on arbitrary arguments *)

\* required levels as commands may declare them, 4 and -1 being no level
CheckLevels == {-1, 0, 1, 2, 3, 4}
CheckTags == {"user", "mod", "thread_admin", "admin", "supper_admin"}
MaxCheckLen == 2

SeqsUpTo(S, n) == UNION {[1..k -> S] : k \in 0..n}

InitCheck ==
  /\ IdleOutsideCheck
  /\ checkIn \in [permissions : SeqsUpTo(CheckLevels, MaxCheckLen),
                  userPermissions : SeqsUpTo(CheckTags, MaxCheckLen)]
  /\ checkOut = None

\* handleCommand line 295: checkPermission(permissions, userPermissions)
CheckPermission ==
  /\ checkOut = None
  /\ checkOut' = [result |-> checkPermission(checkIn.permissions,
                                             checkIn.userPermissions)]
  /\ UNCHANGED <<checkIn, outsideCheck>>

NextCheck == CheckPermission

SpecCheck == InitCheck /\ [][NextCheck]_vars

----------------------------------------------------------------------------
(* Specification SpecEv: handleMessage and handleEvent *)

\* the names in global.plugins.onMessage
OnMessageNames == {"autoreply", "antispam"}

\* global.plugins.onMessage.entries(): the same names in insertion order
onMessageEntries == <<"autoreply", "antispam">>

LogMessageTypes ==
  {"log:subscribe", "log:unsubscribe", "log:user-nickname", "log:thread-call",
   "log:thread-name", "log:thread-color", "log:thread-icon",
   "log:thread-approval-mode", "log:thread-admins", "log:other"}

\* the events the listen callback hands to handleMessage and handleEvent
EvEvents ==
  {[type |-> "message", logMessageType |-> "", senderID |-> u, threadID |-> t,
    participants |-> TRUE] : u \in {"u1", "u2"}, t \in {"g1", "g2", "dm"}}
  \cup
  {[type |-> type, logMessageType |-> IF type = "event" THEN l ELSE "",
    senderID |-> u, threadID |-> t, participants |-> p] :
     type \in {"event", "change_thread_image"}, l \in LogMessageTypes,
     u \in {"u1", "u2"}, t \in {"g1", "g2"}, p \in BOOLEAN}

\* the switch with the break after the nickname case missing
eventHandlerFallingThrough(e) ==
  IF e.type = "change_thread_image" THEN "change_thread_image"
  ELSE CASE e.logMessageType = "log:subscribe" -> "subcribe"
         [] e.logMessageType = "log:unsubscribe" -> "unsubcribe"
         [] e.logMessageType = "log:user-nickname" -> "thread-call"
         [] e.logMessageType = "log:thread-call" -> "thread-call"
         [] e.logMessageType \in {"log:thread-name", "log:thread-color",
                                  "log:thread-icon", "log:thread-approval-mode",
                                  "log:thread-admins"} -> "thread-update"
         [] OTHER -> ""

\* handleEvent lines 567-610: the entry of global.plugins.events it calls
eventHandler(e) ==
  IF e.type = "change_thread_image" THEN "change_thread_image"
  ELSE CASE e.logMessageType = "log:subscribe" -> "subcribe"
         [] e.logMessageType = "log:unsubscribe" -> "unsubcribe"
         [] e.logMessageType = "log:user-nickname" -> "user-nickname"
         [] e.logMessageType = "log:thread-call" -> "thread-call"
         [] e.logMessageType \in {"log:thread-name", "log:thread-color",
                                  "log:thread-icon", "log:thread-approval-mode",
                                  "log:thread-admins"} -> "thread-update"
         [] OTHER -> ""

RECURSIVE callbacksUntilThrow(_, _)
RECURSIVE callbacks(_, _)

\* the loop inside one try block: the first throw ends it
callbacksUntilThrow(entries, throwers) ==
  IF entries = <<>> THEN <<>>
  ELSE IF Head(entries) \in throwers THEN <<Head(entries)>>
  ELSE <<Head(entries)>> \o callbacksUntilThrow(Tail(entries), throwers)

\* handleMessage lines 529-549: the callbacks the loop calls, in order; the
\* try block is inside the loop, so a throw is caught and the loop goes on
callbacks(entries, throwers) ==
  IF entries = <<>> THEN <<>>
  ELSE <<Head(entries)>> \o callbacks(Tail(entries), throwers)

\* the records a dispatch works with
eventData(e) ==
  [thread |-> IF isGroup(e.threadID) THEN ThreadsGet(e.threadID) ELSE None,
   user |-> UsersGet(e.senderID)]

EvOutcome(e, called, threw) ==
  [type |-> e.type, logMessageType |-> e.logMessageType,
   participants |-> e.participants,
   senderID |-> e.senderID, threadID |-> e.threadID,
   banned |-> checkBanStatus(eventData(e), e.senderID),
   invoked |-> {called[i] : i \in DOMAIN called}, called |-> called,
   threw |-> threw, reply |-> "none"]

InitEv ==
  /\ IdleOutsideEv
  /\ config = [ADMINS |-> {}, MODERATORS |-> {}, ABSOLUTES |-> {}]
  /\ \E bannedThread \in BOOLEAN :
       threads = [t \in GroupIDs |->
                    ThreadRecord(bannedThread /\ t = "g2", FALSE, {}, NoOverrides)]
  /\ \E bannedUser \in BOOLEAN :
       users = [u \in UserIDs |-> UserRecord(bannedUser /\ u = "u2", FALSE, <<>>)]
  /\ evInflight = None
  /\ evOut = None

\* handleMessage lines 505-522: up to the awaits of Threads.get / Users.get
MessageReceive(e) ==
  /\ e.type = "message"
  /\ evInflight = None
  /\ evInflight' = e
  /\ UNCHANGED <<evOut, outsideEv>>

\* handleMessage lines 524-549: the ban check, then every onMessage handler
MessageDispatch ==
  /\ evInflight # None
  /\ evInflight' = None
  /\ IF checkBanStatus(eventData(evInflight), evInflight.senderID)
       THEN evOut' = EvOutcome(evInflight, <<>>, {})
       ELSE \E throwers \in SUBSET OnMessageNames :
              evOut' = EvOutcome(evInflight, callbacks(onMessageEntries, throwers),
                                 throwers)
  /\ UNCHANGED outsideEv

\* handleEvent lines 560-615
HandleEvent(e) ==
  /\ e.type # "message"
  /\ IF e.type # "change_thread_image" /\ ~e.participants
       THEN evOut' = EvOutcome(e, <<>>, {})
     ELSE IF eventHandler(e) = ""
       THEN evOut' = EvOutcome(e, <<>>, {})
       ELSE \E throws \in BOOLEAN :
              evOut' = EvOutcome(e, <<eventHandler(e)>>,
                                 IF throws THEN {eventHandler(e)} ELSE {})
  /\ UNCHANGED <<evInflight, outsideEv>>

ReceiveMessage == \E e \in EvEvents : MessageReceive(e)
ThreadEvent == \E e \in EvEvents : HandleEvent(e)

NextEv == ReceiveMessage \/ MessageDispatch \/ ThreadEvent

SpecEv == InitEv /\ [][NextEv]_vars

----------------------------------------------------------------------------
(* Specification SpecApp: the appstate schema check and POST /api/update *)

\* validateAppState line 42: the least number of cookies
MinCookies == 10

\* the most cookies of other names an appstate of the model carries
MaxFillers == 8

\* validateAppState line 48
requiredCookies == <<"c_user", "xs", "datr", "sb">>

\* POST /api/update line 229
requiredKeys == <<"c_user", "xs", "datr">>

\* a falsy JavaScript value: false, null, undefined, the empty string
Falsy == ""

truthy(value) == value # Falsy

\* the entries of an appstate: cookie objects, where Falsy stands for a key
\* or value that is missing or empty, and null
Cookie(key, value) == [kind |-> "cookie", key |-> key, value |-> value]
NullEntry == [kind |-> "null", key |-> Falsy, value |-> Falsy]

\* the values a caller passes: null, an object that is no array, an array,
\* the JSON text of an array, a string that is no JSON
JsNull == [kind |-> "null", items |-> <<>>]
JsObject == [kind |-> "object", items |-> <<>>]
JsArray(items) == [kind |-> "array", items |-> items]
JsGarbage == [kind |-> "garbage", items |-> <<>>]

\* JSON.stringify of an array, and JSON.parse of such a text
toJSON(array) == [kind |-> "string", items |-> array.items]
fromJSON(text) == [kind |-> "array", items |-> text.items]

\* the cookies of the required names an appstate holds, then the others
cookiesOf(keys) ==
  LET held == SelectSeq(requiredCookies, LAMBDA key : key \in keys)
  IN [i \in DOMAIN held |-> Cookie(held[i], IF held[i] = "c_user" THEN "100001" ELSE "v")]

fillers(n) == [i \in 1..n |-> Cookie("fr", "v")]

\* a last entry that is malformed, or none
Tails ==
  {<<>>, <<Cookie(Falsy, "v")>>, <<Cookie("fr", Falsy)>>, <<Cookie("c_user", Falsy)>>,
   <<NullEntry>>}

AppStates ==
  {JsArray(cookiesOf(keys) \o fillers(n) \o tail) :
     keys \in SUBSET {"c_user", "xs", "datr", "sb"}, n \in 0..MaxFillers, tail \in Tails}
  \cup {toJSON(JsArray(cookiesOf(keys) \o fillers(n))) :
          keys \in SUBSET {"c_user", "xs", "datr", "sb"}, n \in 0..MaxFillers}
  \cup {JsNull, JsObject, JsGarbage}

\* the required names of the update endpoint taken for those of the validator
missingCookiesOfEndpoint(foundCookies) ==
  {requiredKeys[i] : i \in DOMAIN requiredKeys} \ foundCookies

\* validateAppState lines 66-71: the required cookies not found
missingCookies(foundCookies) ==
  {requiredCookies[i] : i \in DOMAIN requiredCookies} \ foundCookies

\* what validateAppState returns, or that it threw
Validation(valid, userID, errors, cookieCount, threw) ==
  [valid |-> valid, userID |-> userID, errors |-> errors,
   cookieCount |-> cookieCount, threw |-> threw]

\* appstate-validator.js validateAppState
validateAppState(appstate) ==
  IF appstate.kind = "null" THEN Validation(Falsy, Falsy, {"null"}, 0, FALSE)
  ELSE IF appstate.kind = "garbage" THEN Validation(Falsy, Falsy, {"json"}, 0, FALSE)
  ELSE
    LET parsedAppState == IF appstate.kind = "string" THEN fromJSON(appstate) ELSE appstate
        items == parsedAppState.items
    IN IF parsedAppState.kind # "array"
         THEN Validation(Falsy, Falsy, {"notArray"}, 0, FALSE)
       ELSE IF Len(items) < MinCookies
         THEN Validation(Falsy, Falsy, {"tooFew"}, 0, FALSE)
       ELSE IF \E i \in DOMAIN items : items[i].kind = "null"
         THEN Validation(Falsy, Falsy, {}, 0, TRUE)
       ELSE
         LET sound == {i \in DOMAIN items :
                         truthy(items[i].key) /\ truthy(items[i].value)}
             foundCookies == {items[i].key : i \in sound}
             named == {i \in sound : items[i].key = "c_user"}
             userID == IF named = {} THEN Falsy
                       ELSE items[CHOOSE i \in named : \A j \in named : j <= i].value
             errors == (IF sound # DOMAIN items THEN {"structure"} ELSE {})
                       \cup missingCookies(foundCookies)
         IN Validation(IF errors = {} THEN userID ELSE Falsy, userID, errors,
                       Len(items), FALSE)

\* items.some(item => item.key === key): "throws" when it reaches a null
\* entry before an entry of that key
someKey(items, key) ==
  LET hits == {i \in DOMAIN items : items[i].kind = "cookie" /\ items[i].key = key}
      nulls == {i \in DOMAIN items : items[i].kind = "null"}
  IN IF \E i \in hits : \A j \in nulls : i < j THEN "true"
     ELSE IF nulls # {} THEN "throws"
     ELSE "false"

RECURSIVE everyKey(_, _)
\* requiredKeys.every(key => parsedAppstate.some(...)), lines 229-232
everyKey(keys, items) ==
  IF keys = <<>> THEN "true"
  ELSE IF someKey(items, Head(keys)) = "true" THEN everyKey(Tail(keys), items)
  ELSE someKey(items, Head(keys))

AppOutcome(op, status, result) ==
  [op |-> op, input |-> appIn, status |-> status, result |-> result]

InitApp ==
  /\ IdleOutsideApp
  /\ appIn \in AppStates
  /\ appFile = JsNull
  /\ appOut = None

\* a caller validates the appstate: index.js line 97
ValidateAppState ==
  /\ appOut' = AppOutcome("validate", 0, validateAppState(appIn))
  /\ UNCHANGED <<appIn, appFile, outsideApp>>

\* POST /api/update with body {appstate}, lines 208-332; botRunning: the lock
\* file names a live process, so no second bot is spawned
PostUpdate(botRunning) ==
  LET appstate == appIn
      parsedAppstate == IF appstate.kind = "string" THEN fromJSON(appstate) ELSE appstate
  IN /\ IF appstate.kind = "null"
          THEN appOut' = AppOutcome("update", 400, "none") /\ UNCHANGED appFile
        ELSE IF appstate.kind = "garbage"
          THEN appOut' = AppOutcome("update", 500, "none") /\ UNCHANGED appFile
        ELSE IF parsedAppstate.kind # "array"
          THEN appOut' = AppOutcome("update", 400, "none") /\ UNCHANGED appFile
        ELSE IF everyKey(requiredKeys, parsedAppstate.items) = "throws"
          THEN appOut' = AppOutcome("update", 500, "none") /\ UNCHANGED appFile
        ELSE IF everyKey(requiredKeys, parsedAppstate.items) = "false"
          THEN appOut' = AppOutcome("update", 400, "none") /\ UNCHANGED appFile
          ELSE /\ appFile' = toJSON(parsedAppstate)
               /\ appOut' = AppOutcome("update", 200,
                                       IF botRunning THEN "running" ELSE "spawned")
     /\ UNCHANGED <<appIn, outsideApp>>

Update == \E botRunning \in BOOLEAN : PostUpdate(botRunning)

NextApp == ValidateAppState \/ Update

SpecApp == InitApp /\ [][NextApp]_vars

----------------------------------------------------------------------------
(* Specification SpecLock: data/bot.lock and the processes that start the bot *)

\* the launcher, the web UI (scripts/update-appstate.js, a process of its
\* own) and the launcher the web UI spawns on Termux
Starters == {"index.js", "update-appstate.js", "index.js of the web UI"}
Launchers == {"index.js", "index.js of the web UI"}

\* how many bot processes are spawned in one run
MaxSpawns == 3

\* the content of data/bot.lock after writeLock(pid)
LockOf(pid) == [pid |-> pid]

\* isProcessRunning(oldPid) on the lock's content: process.kill(pid, 0)
isProcessRunning(content) == content.pid \in bots

InitLock ==
  /\ IdleOutsideLock
  /\ lockFile = None
  /\ bots = {}
  /\ spawned = 0
  /\ isTermux \in BOOLEAN
  /\ starters = [s \in Starters |->
                   [pc |-> IF s = "index.js of the web UI" THEN "off" ELSE "idle",
                    child |-> 0]]

\* index.js startBot lines 157-168, update-appstate.js lines 267-281: the
\* lock is read; a stale one is removed
CheckLock(s) ==
  /\ starters[s].pc = "idle"
  /\ spawned < MaxSpawns
  /\ IF lockFile # None /\ isProcessRunning(lockFile)
       THEN /\ starters' = [starters EXCEPT ![s].pc =
                              IF s \in Launchers THEN "returned" ELSE "idle"]
            /\ UNCHANGED lockFile
       ELSE /\ starters' = [starters EXCEPT ![s].pc = "spawning"]
            /\ lockFile' = None
  /\ UNCHANGED <<bots, spawned, isTermux, outsideLock>>

\* index.js lines 170-179, update-appstate.js lines 265 and 284-300: spawn.
\* On Termux the web UI's entry point is index.js, another launcher
SpawnBot(s) ==
  /\ starters[s].pc = "spawning"
  /\ IF s = "update-appstate.js" /\ isTermux
       THEN /\ starters' = [starters EXCEPT
                              ![s].pc = "idle",
                              !["index.js of the web UI"].pc =
                                IF @ \in {"off", "returned", "exited"}
                                  THEN "idle" ELSE @]
            /\ UNCHANGED <<bots, spawned>>
       ELSE /\ spawned' = spawned + 1
            /\ bots' = bots \cup {spawned + 1}
            /\ starters' = [starters EXCEPT ![s].pc = "writing",
                                            ![s].child = spawned + 1]
  /\ UNCHANGED <<lockFile, isTermux, outsideLock>>

\* index.js line 182 writeLock(child.pid), update-appstate.js lines 303-305
WriteLock(s) ==
  /\ starters[s].pc = "writing"
  /\ lockFile' = LockOf(starters[s].child)
  /\ starters' = [starters EXCEPT ![s].pc =
                    IF s \in Launchers THEN "watching" ELSE "idle"]
  /\ UNCHANGED <<bots, spawned, isTermux, outsideLock>>

\* a bot process ends; the launcher that spawned it runs its close handler
\* (index.js lines 184-198): clearLock, then startBot again or exit
BotCloses(pid, restart) ==
  /\ pid \in bots
  /\ \A s \in Starters : ~(starters[s].pc = "writing" /\ starters[s].child = pid)
  /\ bots' = bots \ {pid}
  /\ IF \E s \in Launchers : starters[s].pc = "watching" /\ starters[s].child = pid
       THEN /\ lockFile' = None
            /\ starters' = [s \in Starters |->
                              IF s \in Launchers /\ starters[s].pc = "watching"
                                 /\ starters[s].child = pid
                                THEN [starters[s] EXCEPT
                                        !.pc = IF restart THEN "idle" ELSE "exited"]
                                ELSE starters[s]]
       ELSE UNCHANGED <<lockFile, starters>>
  /\ UNCHANGED <<spawned, isTermux, outsideLock>>

StartBot == \E s \in Starters : CheckLock(s)
Spawning == \E s \in Starters : SpawnBot(s)
WritingLock == \E s \in Starters : WriteLock(s)
BotExit == \E pid \in bots, restart \in BOOLEAN : BotCloses(pid, restart)

NextLock == StartBot \/ Spawning \/ WritingLock \/ BotExit

SpecLock == InitLock /\ [][NextLock]_vars

----------------------------------------------------------------------------
(* Specification SpecPlugin: PluginService.enable and its dependencies *)

PluginNames == {"a", "b", "c"}

\* a dependency nobody loaded
Missing == "missing"

\* the dependencies a plugin may declare
DependencyLists ==
  {<<>>, <<"a">>, <<"b">>, <<"c">>, <<Missing>>, <<"b", "c">>, <<"c", "a">>}

\* how deep enable may nest in the model; an enable that ends nests at most
\* one call for each loaded plugin
MaxDepth == 6

\* a call of enable(name) that reached its try block: the dependency the
\* loop of checkDependencies is at
Frame(name) == [name |-> name, i |-> 1, pc |-> "dependencies"]

Top == stack[Len(stack)]
Callers == SubSeq(stack, 1, Len(stack) - 1)

\* the callers after the call on top returned
returned(callers) ==
  IF callers = <<>> THEN callers
  ELSE [callers EXCEPT ![Len(callers)].i = @ + 1]

\* the callers after the call on top threw: the await in checkDependencies
\* rethrows inside the caller's try block
thrown(callers) ==
  IF callers = <<>> THEN callers
  ELSE [callers EXCEPT ![Len(callers)].pc = "catch"]

PluginOutcome(name, result) == [name |-> name, result |-> result]

InitPlugin ==
  /\ IdleOutsidePlugin
  /\ plugins \in [PluginNames -> [dependencies : DependencyLists,
                                  throws : {FALSE}]]
                 \cup {[n \in PluginNames |->
                          [dependencies |-> IF n = "a" THEN <<"b", "c">> ELSE <<>>,
                           throws |-> n = "c"]]}
  /\ enabled = {}
  /\ states = [n \in PluginNames |-> "loaded"]
  /\ stack = <<>>
  /\ plugOut = None

\* enable lines 180-188, called by the application
Enable(name) ==
  /\ stack = <<>>
  /\ IF name \notin DOMAIN plugins
       THEN plugOut' = PluginOutcome(name, "PluginException") /\ UNCHANGED stack
     ELSE IF name \in enabled
       THEN plugOut' = PluginOutcome(name, "enabled") /\ UNCHANGED stack
     ELSE plugOut' = None /\ stack' = <<Frame(name)>>
  /\ UNCHANGED <<plugins, enabled, states, outsidePlugin>>

\* checkDependencies lines 294-306: one turn of the loop, with the call of
\* enable(dep) up to its try block
CheckDependencies ==
  /\ stack # <<>>
  /\ Top.pc = "dependencies"
  /\ Top.i <= Len(plugins[Top.name].dependencies)
  /\ LET dep == plugins[Top.name].dependencies[Top.i]
     IN IF dep \notin DOMAIN plugins
          THEN stack' = [stack EXCEPT ![Len(stack)].pc = "catch"]
        ELSE IF dep \in enabled
          THEN stack' = [stack EXCEPT ![Len(stack)].i = @ + 1]
        ELSE /\ Len(stack) < MaxDepth
             /\ stack' = Append(stack, Frame(dep))
  /\ UNCHANGED <<plugins, enabled, states, plugOut, outsidePlugin>>

\* enable lines 198-217: the hooks, then the plugin is enabled
OnEnable ==
  /\ stack # <<>>
  /\ Top.pc = "dependencies"
  /\ Top.i > Len(plugins[Top.name].dependencies)
  /\ IF plugins[Top.name].throws
       THEN /\ stack' = [stack EXCEPT ![Len(stack)].pc = "catch"]
            /\ UNCHANGED <<enabled, states, plugOut>>
       ELSE /\ enabled' = enabled \cup {Top.name}
            /\ states' = [states EXCEPT ![Top.name] = "enabled"]
            /\ stack' = returned(Callers)
            /\ plugOut' = IF Callers = <<>>
                            THEN PluginOutcome(Top.name, "enabled")
                            ELSE plugOut
  /\ UNCHANGED <<plugins, outsidePlugin>>

\* enable lines 216-222: the catch block
Catch ==
  /\ stack # <<>>
  /\ Top.pc = "catch"
  /\ states' = [states EXCEPT ![Top.name] = "error"]
  /\ stack' = thrown(Callers)
  /\ plugOut' = IF Callers = <<>>
                  THEN PluginOutcome(Top.name, "PluginException")
                  ELSE plugOut
  /\ UNCHANGED <<plugins, enabled, outsidePlugin>>

EnableCall == \E name \in PluginNames \cup {Missing} : Enable(name)

NextPlugin == EnableCall \/ CheckDependencies \/ OnEnable \/ Catch

SpecPlugin == InitPlugin /\ [][NextPlugin]_vars

----------------------------------------------------------------------------
(* Claims *)

Throws(behaviour) == behaviour \in {"throwSync", "rejectEarly", "rejectLate"}

\* the seconds a command declares, 3 when it declares none
declaredCooldown(commandName) ==
  IF commandsConfig(commandName).cooldown = NoCooldown
    THEN 3
    ELSE commandsConfig(commandName).cooldown

\* an invocation that got past the ban and the permission check
ReachedCooldownCheck == out # None /\ out.stage \in {"cooldown", "nsfw", "run"}

\* C1: a registered waiter is consumed exactly once: the first matching reply
\* (reaction) invokes its callback and removes it, so no second event on the
\* same message ID invokes the callback of that registration.
C1_WaiterConsumedOnce ==
  \A kind \in Kinds, messageID \in MessageIDs : calls[kind][messageID] <= 1

\* C2: every exception raised in a command handler body, in a synchronous or
\* an asynchronous handler, is caught by handleCommand and answered with the
\* formatted error reply.
C2_HandlerErrorsReplied ==
  (out # None /\ out.invoked /\ Throws(out.behaviour)) => out.reply = "error"

\* C3: a command that requires the levels [2], invoked by a sender whose
\* resolved tags are exactly {user}, never has its handler invoked and
\* produces no reply.
C3_Level2DeniedToUser ==
  (/\ out # None /\ out.commandName # NotFound
   /\ commandsConfig(out.commandName).permissions = <<2>>
   /\ getUserPermissions(out.senderID, out.threadID) = <<"user">>)
  => (~out.invoked /\ out.reply = "none")

\* C4: for a user who is on no global list and not in the thread's adminIDs,
\* a per-user override list stored in the thread is what permission
\* resolution returns, verbatim.
C4_OverrideVerbatim ==
  (/\ resolved # None
   /\ ~resolved.global /\ ~resolved.moderator /\ ~resolved.threadAdmin
   /\ resolved.hasOverride)
  => resolved.result = resolved.override

\* C5: the global step grants {admin, supper_admin} exactly to the members of
\* ABSOLUTES or ADMINS; a user outside both lists who is no thread admin and
\* has no stored override and no stored user permissions resolves to {user}.
C5_GlobalStepExact ==
  resolved # None =>
    /\ resolved.global => resolved.result = <<"admin", "supper_admin">>
    /\ (/\ ~resolved.global /\ ~resolved.threadAdmin
        /\ ~resolved.hasOverride /\ ~resolved.hasOwn)
       => resolved.result = <<"user">>

\* C6: once the handler of (command, user) ran at time t, an invocation that
\* reaches the cooldown check before t + cooldownSeconds is rejected as not
\* ready and one at or after t + cooldownSeconds is ready, whatever the
\* interleaving of the two dispatches.
C6_CooldownWindow ==
  (ReachedCooldownCheck /\ out.ran # 0) =>
    IF out.at < out.ran + declaredCooldown(out.commandName) * 1000
      THEN out.stage = "cooldown" /\ ~out.invoked
      ELSE out.stage # "cooldown"

C8_ZeroCooldownReady ==
  (/\ out # None /\ out.commandName # NotFound
   /\ commandsConfig(out.commandName).cooldown = 0)
  => out.stage # "cooldown"

\* C9: the cooldown of (command, user) is applied whatever the handler did:
\* after an invocation that passed all checks and whose handler threw, the
\* next invocation inside the cooldown window is not ready.
C9_CooldownAfterThrow ==
  (/\ svcOut # None /\ svcOut.result \in {"cooldown", "started"}
   /\ svcOut.passed.outcome = "threw"
   /\ svcOut.at < svcOut.passed.at + declaredCooldown(svcOut.commandName) * 1000)
  => svcOut.result = "cooldown"

\* C10: an invocation rejected by the ban check, the permission check, the
\* NSFW gate or an active cooldown leaves the cooldown map unchanged.
C10_RejectedKeepsCooldown ==
  [][\A slot \in Slots :
       ((Lookup(slot) \/ Dispatch(slot)) /\ out' # None /\ ~out'.invoked)
       => cooldowns' = cooldowns]_vars

C10_Witness ==
  /\ out # None /\ out.stage = "cooldown"
  /\ out.stamp # 0 /\ out.at > out.stamp
  /\ stampOf(cooldowns, out.senderID, out.commandName) = out.stamp

\* C11: after any sequence of registrations no command name is also an alias
\* of a different command; a colliding registration fails and leaves the
\* registry unchanged.
C11_NameNeverAlias ==
  \A a \in DOMAIN svcAliases :
    a \in DOMAIN svcCommands => svcAliases[a] = a

\* C12: for every registered command and every alias it declares, resolving
\* the alias returns the same command as resolving the command's own name.
C12_AliasResolvesToOwner ==
  (regOut # None /\ regOut.op = "resolve") =>
    \A n \in regOut.owners : regOut.result = n

\* C13: reload replaces an entry atomically: a resolve interleaved with a
\* reload finds every registered command, under its name and under the
\* aliases its current config declares only.
C13_ReloadAtomic ==
  (regOut # None /\ regOut.op = "resolve") =>
    /\ regOut.id \in regOut.known => regOut.result # NotFound
    /\ regOut.result # NotFound => regOut.declared

\* C14: no dispatcher entry point throws or returns a rejected promise to the
\* listen loop, whatever the event, the records found and the interleaving
\* with the waiters' TTL timers.
C14_EntryPointsNeverReject ==
  wOut # None => wOut.stage # "rejected"

\* C15: every delayed-loop command tests its session key on every iteration,
\* so once a stop command deleted the thread's key the running loop starts no
\* further send: at most the message in flight goes out, then the loop ends.
C15_StopEndsLoop ==
  \A slot \in LoopSlots : ~loops[slot].resumed

\* C16: the periodic sweep timer and the auto-reload / refresh timers are
\* process-wide singletons, armed once at startup and never re-armed: at every
\* moment at most one instance of each is pending.
C16_TimersAreSingletons ==
  boot # None =>
    \A t \in {"sweep", "refreshState", "refreshMqtt", "autoReload"} : armed[t] <= 1

\* C17: after a non-zero exit of the child the launcher restarts it as long
\* as no more than 5 restarts fall within the rolling 1-minute window, and
\* otherwise exits for good; an exit with code 0 is never followed by a
\* restart.
C17_BoundedRestart ==
  launchOut # None =>
    (launchOut.decision = "restart"
       <=> (launchOut.code # 0 /\ launchOut.restartsInWindow + 1 <= 5))

\* C18: with the JSON backend a thread record written by the persistence
\* write and read back by database initialization equals the written record,
\* except that adminIDs wrapper objects are reduced to bare IDs.
C18_JsonRoundTrip ==
  (dbOut # None /\ dbOut.op = "read" /\ dbOut.written # None) =>
    dbOut.read = [t \in DOMAIN dbOut.written |-> normalized(dbOut.written[t])]

\* the allowed-tag set the contract gives each level
AllowedTags(level) ==
  CASE level = 0 -> {"user"}
    [] level = 1 -> {"user", "mod"}
    [] level = 2 -> {"user", "mod", "admin", "thread_admin"}
    [] level = 3 -> CheckTags
    [] OTHER -> {}

TagsOf(list) == {list[i] : i \in DOMAIN list}

C20_BanBeforeHandlers ==
  (evOut # None /\ evOut.banned) => (evOut.invoked = {} /\ evOut.reply = "none")


\* what a member of the thread sees of an invocation: the text sent and the
\* reaction set
Observed(outcome) == <<outcome.reply, outcome.reaction>>

\* C21: when the permission check fails the dispatcher sends no message, sets
\* no reaction and does not invoke the handler, so the thread sees what it
\* sees for a command that does not exist.
C21_DeniedIsSilent ==
  (out # None /\ out.stage = "denied") =>
    /\ out.reply = "none" /\ ~out.reaction /\ ~out.invoked
    /\ Observed(out) = <<replyOf("notfound", "none"), reactionOf("notfound")>>

C21_Witness ==
  /\ out # None /\ out.stage = "denied"
  /\ out.senderID = "u3" /\ out.commandName = "ping"

\* C22: a permitted sender who invokes a command inside its cooldown window
\* gets the clock reaction, no text reply, and the handler is not invoked.
C22_CooldownReactsOnly ==
  (/\ ReachedCooldownCheck
   /\ out.stamp # 0
   /\ out.at - out.stamp < declaredCooldown(out.commandName) * 1000)
  => (out.reaction /\ out.reply = "none" /\ ~out.invoked)

C22_Witness ==
  /\ out # None /\ out.stage = "cooldown" /\ out.commandName = "ping"
  /\ out.stamp # 0 /\ out.at = out.stamp + TickMs
  /\ out.reaction /\ ~out.invoked


\* C23: a waiter registered with a time-to-live T is absent once T has
\* elapsed since its registration, so a reply or reaction that arrives later
\* finds no waiter and invokes no callback; no sweep is needed for that.
C23_ExpiredIsAbsent ==
  \A kind \in Kinds, messageID \in MessageIDs :
    (messageID \in waiterMap(kind) /\ leases[kind][messageID].until # 0)
    => now <= leases[kind][messageID].until

C23_Witness ==
  /\ leases["reply"]["m1"] = Vacant
  /\ "m1" \notin replies
  /\ wOut # None /\ wOut.kind = "reply" /\ wOut.stage = "nowaiter"
  /\ calls["reply"]["m1"] > 0
  /\ now > StartTime + TickMs

\* C24: a registered waiter is deleted only by the expiry of its own
\* time-to-live or by being matched and invoked; a waiter registered again
\* on the same message ID lives for its own full time-to-live.
C24_OwnLifetime ==
  [][\A timer \in timers :
       (TimerFires(timer) /\ timer.messageID \in waiterMap(timer.kind))
       => leases[timer.kind][timer.messageID].until = timer.due]_vars

\* C25: a waiter registered with authorOnly set has its callback invoked by
\* its bound author only.
C25_AuthorOnly ==
  [][(/\ WaiterDispatch
      /\ wOut'.stage = "called"
      /\ leases[wOut'.kind][wOut'.messageID].authorOnly)
     => wOut'.senderID = waiters[wOut'.messageID].author]_vars


\* C26: every key of the cooldown map names a command that is registered, at
\* all times: also after a command was reloaded, failed to reload or was
\* removed.
C26_CooldownKeysRegistered ==
  \A commandName \in DOMAIN svcCooldowns : commandName \in DOMAIN svcCommands


\* C27: for a message without command prefix from a sender who is not
\* banned, every registered onMessage handler is invoked exactly once, and a
\* handler that throws does not keep the remaining ones from running.
C27_EveryOnMessageRuns ==
  (evOut # None /\ evOut.type = "message" /\ ~evOut.banned) =>
    /\ evOut.invoked = OnMessageNames
    /\ \A name \in OnMessageNames :
         Cardinality({i \in DOMAIN evOut.called : evOut.called[i] = name}) = 1

C27_Witness ==
  /\ evOut # None /\ evOut.type = "message" /\ ~evOut.banned
  /\ evOut.threw = {"autoreply"}
  /\ evOut.called = <<"autoreply", "antispam">>

\* the handler a logMessageType names: subscribe, unsubscribe, nickname
\* change, call, or the thread-metadata update
NamedHandler(logMessageType) ==
  CASE logMessageType = "log:subscribe" -> <<"subcribe">>
    [] logMessageType = "log:unsubscribe" -> <<"unsubcribe">>
    [] logMessageType = "log:user-nickname" -> <<"user-nickname">>
    [] logMessageType = "log:thread-call" -> <<"thread-call">>
    [] logMessageType \in {"log:thread-name", "log:thread-color", "log:thread-icon",
                           "log:thread-approval-mode", "log:thread-admins"}
         -> <<"thread-update">>
    [] OTHER -> <<>>

\* C28: a thread-log event is dispatched to exactly the one handler its
\* logMessageType names, and an event of an unmapped logMessageType invokes
\* no handler and raises no error.
C28_EventDispatch ==
  (evOut # None /\ evOut.type = "event") =>
    /\ evOut.called = NamedHandler(evOut.logMessageType)
    /\ NamedHandler(evOut.logMessageType) = <<>> => evOut.threw = {}

\* C28 (amended): the same for an event that carries participant IDs; an
\* event without them invokes no handler at all.
C28_EventDispatchWithParticipants ==
  (evOut # None /\ evOut.type = "event") =>
    /\ evOut.participants => evOut.called = NamedHandler(evOut.logMessageType)
    /\ ~evOut.participants => evOut.called = <<>>
    /\ evOut.called = <<>> => evOut.threw = {}

C28_Witness ==
  /\ evOut # None /\ evOut.type = "event" /\ evOut.participants
  /\ evOut.logMessageType = "log:user-nickname"
  /\ evOut.called = <<"user-nickname">>


\* the entries are cookies that each have a key and a value
EveryEntrySound(items) ==
  \A i \in DOMAIN items :
    items[i].kind = "cookie" /\ truthy(items[i].key) /\ truthy(items[i].value)

\* an appstate, given as an array or as its JSON text, that is an array of at
\* least 10 sound entries with all of c_user, xs, datr and sb among the keys
MeetsSchema(appstate) ==
  /\ appstate.kind \in {"array", "string"}
  /\ Len(appstate.items) >= 10
  /\ EveryEntrySound(appstate.items)
  /\ {"c_user", "xs", "datr", "sb"} \subseteq
       {appstate.items[i].key : i \in DOMAIN appstate.items}

\* C29: the schema check reports an appstate as valid exactly when it is an
\* array of at least 10 cookie entries, each with a key and a value, that
\* holds all of the keys c_user, xs, datr and sb.
C29_ValidExactly ==
  (appOut # None /\ appOut.op = "validate") =>
    (truthy(appOut.result.valid) <=> MeetsSchema(appOut.input))

C29_Witness ==
  /\ appOut # None /\ appOut.op = "validate"
  /\ truthy(appOut.result.valid)
  /\ appOut.input.kind = "array" /\ Len(appOut.input.items) = 10

\* C30: every appstate the update endpoint accepts, writes to
\* data/appstate.json and starts the bot with holds c_user, xs, datr and sb
\* and has at least 10 entries: it passes the schema check of the launcher.
C30_AcceptedPassesSchema ==
  (appOut # None /\ appOut.op = "update" /\ appOut.status = 200) =>
    /\ MeetsSchema(appFile)
    /\ truthy(validateAppState(fromJSON(appFile)).valid)

\* C31: when initDatabase finds threads.json or users.json corrupt, the file
\* is reset to an empty object, a warning names it, the map loaded from it is
\* empty and initDatabase does not throw
C31_CorruptIsReset ==
  (dbOut # None /\ dbOut.op = "read") =>
    /\ ~dbOut.threw
    /\ \A path \in DOMAIN dbOut.found :
         dbOut.found[path] = Corrupt =>
           /\ disk[path] = stringify(<<>>)
           /\ path \in dbOut.warned
           /\ (path = ReadPath => dbOut.read = <<>>)
           /\ (path = UsersPath => dbOut.users = <<>>)

C31_Witness ==
  /\ dbOut # None /\ dbOut.op = "read"
  /\ dbOut.found[UsersPath] = Corrupt
  /\ dbOut.found[ReadPath] = stringify(StoredThreads)
  /\ dbOut.read # <<>>

\* C32: registering a waiter whose record has no callable callback returns
\* silently: nothing is thrown, and no waiter, timer or stored waiter changes
C32_SilentNoOp ==
  (wOut # None /\ wOut.stage \in {"returned", "TypeError", "stored"}
     /\ ~hasCallback(wOut.data)) =>
    /\ wOut.stage = "returned"
    /\ wOut.after = wOut.before

\* the part of C32 about the maps: nothing is stored, armed or changed
C32_NothingStored ==
  (wOut # None /\ wOut.stage \in {"returned", "TypeError"}) =>
    wOut.after = wOut.before

\* C33: in a thread at most one loop of each kind is sending at any time
C33_OneLoopPerKind ==
  \A kind \in LoopKinds :
    Cardinality({slot \in LoopSlots :
                   loops[slot].kind = kind /\ loops[slot].pc = "sending"}) <= 1

\* C34: the reply waiter and the reaction waiter of one message are separate
\* records: each map's entry holds the callback its own registration gave
C34_IndependentRecords ==
  \A messageID \in MessageIDs :
    /\ messageID \in replies => waiters[messageID].callback = "reply"
    /\ messageID \in reactions => waiters[messageID].callback = "reaction"

\* C35: whatever checkPermission allows a plain user, it also allows a
\* global admin and a thread admin
C35_MonotoneInPrivilege ==
  (checkOut # None /\ checkIn.userPermissions = <<"user">> /\ checkOut.result) =>
    /\ checkPermission(checkIn.permissions, <<"admin", "supper_admin">>)
    /\ checkPermission(checkIn.permissions, <<"thread_admin", "admin">>)

\* C36: execute lets a sender through its permission check exactly when
\* handleCommand would, by the permissions levels the command declares
C36_SameDecision ==
  svcOut # None =>
    ((svcOut.result # "denied")
       = isValidUser(svcOut.senderID, "g1", svcOut.commandName))

\* C37: at most one bot process is alive at any time, however the launchers
\* and the web UI interleave their starts
C37_OneBot == Cardinality(bots) <= 1

\* C38: when updateUserPermissions returns false the thread's permission
\* overrides in memory are what they were before the call
C38_AllOrNothing ==
  [][(SetPermissionRun /\ spOut' = "failed") => threads' = threads]_vars

C40_OneSubscription == boot # None => boot.listening <= 1

====
